---------------------------- MODULE Spec2Model ----------------------------
(***************************************************************************)
(* A model of imagesize: sniffing the format of an image from its first    *)
(* 12 bytes and parsing width and height out of the header.                *)
(*                                                                         *)
(* An input is a finite sequence of bytes (0..255).  A reader is that      *)
(* sequence plus a position; read_exact fails with UnexpectedEof when      *)
(* fewer bytes are left than asked for.  Sequences are 1-based in TLA+;    *)
(* every offset below is the 0-based offset of the source.                 *)
(*                                                                         *)
(* The sources are of two generations: src/src/lib.rs is the single-file   *)
(* crate (nine formats, its own image_type and parsers); formats/ and      *)
(* container/ are the per-format modules dispatched by formats/mod.rs.     *)
(* Both are modelled, each from its own file.                              *)
(***************************************************************************)
EXTENDS Integers, Sequences, FiniteSets, TLC

VARIABLES
    entry,   \* the public entry point (or pure function) this run exercises
    data,    \* the input: the bytes handed to the entry point
    pos,     \* the reader's position (0-based offset of the next byte)
    pc,      \* the control point of the call
    loc,     \* the running parser's local variables
    res      \* the call's outcome

vars == <<entry, data, pos, pc, loc, res>>

---------------------------------------------------------------------------
(* Outcomes.                                                               *)

NoRes == [kind |-> "none", tag |-> "", sub |-> "", width |-> 0, height |-> 0, err |-> ""]

\* Ok(ImageSize { width, height })
OkSize(w, h) == [NoRes EXCEPT !.kind = "size", !.width = w, !.height = h]

\* Ok(ImageType::tag) or Ok(ImageType::tag(sub))
OkType(t, s) == [NoRes EXCEPT !.kind = "type", !.tag = t, !.sub = s]

\* Err(ImageError::NotSupported), Err(ImageError::CorruptedImage), or
\* Err(ImageError::IoError(kind)) with kind UnexpectedEof / InvalidData
Err(e) == [NoRes EXCEPT !.kind = "err", !.err = e]

\* Ok(v) of read_bits: the field, kept in width
OkBits(v) == [NoRes EXCEPT !.kind = "bits", !.width = v]

\* a predicate's answer
OkBool(b) == [NoRes EXCEPT !.kind = "bool", !.tag = IF b THEN "true" ELSE "false"]

\* the thread panicked (index out of bounds, arithmetic overflow, ...)
Panic(why) == [NoRes EXCEPT !.kind = "panic", !.err = why]

\* The locals of the parsers that loop: jpeg_size (depth), heif size (legacy:
\* the skip_to_tag of lib.rs; ipco_size, max_width, max_height, found_ispe,
\* rotation), jxl_size (file_header, header_size), tiff_size of lib.rs
\* (little: the endianness; n: the IFD entries left; width, height: -1 is None)
NoLoc == [depth |-> 0, legacy |-> FALSE, ipco_size |-> 0, max_width |-> 0,
          max_height |-> 0, found_ispe |-> FALSE, rotation |-> 0,
          file_header |-> <<>>, header_size |-> 0,
          little |-> TRUE, big |-> FALSE, n |-> 0, width |-> -1, height |-> -1]

\* a step's outcome: continue at control point p, or return r
Goto(p, newpos, l) == [pc |-> p, pos |-> newpos, loc |-> l, res |-> NoRes]
Return(r, l) == [pc |-> "done", pos |-> 0, loc |-> l, res |-> r]

---------------------------------------------------------------------------
(* Bytes and the primitive reader.                                         *)

Byte == 0..255

Min(a, b) == IF a <= b THEN a ELSE b

\* header[a..b] of the source: offsets a (inclusive) to b (exclusive)
Slice(d, a, b) == [i \in 1..(b - a) |-> d[a + i]]

\* header.starts_with(p): false when the header is shorter than p
StartsWith(d, p) == Len(d) >= Len(p) /\ \A i \in 1..Len(p) : d[i] = p[i]

\* read_exact of n bytes at offset p succeeds
CanRead(d, p, n) == n <= Len(d) - p

U16BE(d, p) == d[p + 1] * 256 + d[p + 2]
U16LE(d, p) == d[p + 2] * 256 + d[p + 1]
U24LE(d, p) == d[p + 3] * 65536 + d[p + 2] * 256 + d[p + 1]
U32BE(d, p) == d[p + 1] * 16777216 + d[p + 2] * 65536 + d[p + 3] * 256 + d[p + 4]
U32LE(d, p) == d[p + 4] * 16777216 + d[p + 3] * 65536 + d[p + 2] * 256 + d[p + 1]

\* the bytes of a value, as a file stores them
BytesBE(v, n) == [i \in 1..n |-> (v \div (256 ^ (n - i))) % 256]
BytesLE(v, n) == [i \in 1..n |-> (v \div (256 ^ (i - 1))) % 256]

Zeros(n) == [i \in 1..n |-> 0]

---------------------------------------------------------------------------
(* The matches predicates, on the header window h.                         *)

\* the two PKM version strings, "10" and "20"
PkmVersion(h) == Slice(h, 4, 6) = <<49, 48>> \/ Slice(h, 4, 6) = <<50, 48>>

jpeg_matches(h) == Len(h) >= 3 /\ Slice(h, 0, 3) = <<255, 216, 255>>

png_matches(h) == Len(h) >= 4 /\ Slice(h, 0, 4) = <<137, 80, 78, 71>>

gif_matches(h) == StartsWith(h, <<71, 73, 70, 56>>)

\* "II" type 0 | "MM" 0 type, type one of 0x2A (TIFF), 0x2B (BigTIFF)
tiff_matches(h) ==
    \/ StartsWith(h, <<73, 73>>) /\ h[3] \in {42, 43} /\ h[4] = 0
    \/ StartsWith(h, <<77, 77, 0>>) /\ h[4] \in {42, 43}

webp_matches(h) ==
    /\ Len(h) >= 12
    /\ Slice(h, 0, 4) = <<82, 73, 70, 70>>
    /\ Slice(h, 8, 12) = <<87, 69, 66, 80>>

\* heic heix heis hevs heim hevm hevc hevx | avif avio avis MA1A MA1B | jpeg jpgs
inner_matches(brand) ==
    IF brand \in {<<104, 101, 105, 99>>, <<104, 101, 105, 120>>, <<104, 101, 105, 115>>,
                  <<104, 101, 118, 115>>, <<104, 101, 105, 109>>, <<104, 101, 118, 109>>,
                  <<104, 101, 118, 99>>, <<104, 101, 118, 120>>}
    THEN "Hevc"
    ELSE IF brand \in {<<97, 118, 105, 102>>, <<97, 118, 105, 111>>, <<97, 118, 105, 115>>,
                       <<77, 65, 49, 65>>, <<77, 65, 49, 66>>}
    THEN "Av1"
    ELSE IF brand \in {<<106, 112, 101, 103>>, <<106, 112, 103, 115>>}
    THEN "Jpeg"
    ELSE "None"

\* mif1 msf1 mif2 miaf: brands that name no codec
StructuralBrands == {<<109, 105, 102, 49>>, <<109, 115, 102, 49>>,
                     <<109, 105, 102, 50>>, <<109, 105, 97, 102>>}

\* container::heif::matches that looks at the first compatible brand only
heif_matches_one_slot(h, d) ==
    IF Len(h) < 12 \/ Slice(h, 4, 8) # <<102, 116, 121, 112>> THEN "None"
    ELSE IF inner_matches(Slice(h, 8, 12)) # "None" THEN inner_matches(Slice(h, 8, 12))
    ELSE IF Slice(h, 8, 12) \notin StructuralBrands THEN "Unknown"
    ELSE IF ~CanRead(d, 12, 12) THEN "Unknown"
    ELSE IF inner_matches(Slice(d, 16, 20)) # "None" THEN inner_matches(Slice(d, 16, 20))
    ELSE "Unknown"

\* container::heif::matches(header, reader): "None", or the compression.
\* The reader stands right after the 12-byte header, so the 12 bytes it reads
\* for a structural brand are d[12..24].
heif_matches(h, d) ==
    IF Len(h) < 12 \/ Slice(h, 4, 8) # <<102, 116, 121, 112>> THEN "None"
    ELSE IF inner_matches(Slice(h, 8, 12)) # "None" THEN inner_matches(Slice(h, 8, 12))
    ELSE IF Slice(h, 8, 12) \notin StructuralBrands THEN "Unknown"
    ELSE IF ~CanRead(d, 12, 12) THEN "Unknown"
    ELSE IF inner_matches(Slice(d, 16, 20)) # "None" THEN inner_matches(Slice(d, 16, 20))
    ELSE IF Slice(d, 16, 20) \in StructuralBrands
            /\ inner_matches(Slice(d, 20, 24)) # "None"
    THEN inner_matches(Slice(d, 20, 24))
    ELSE "Unknown"

jxl_matches(h) ==
    \/ Len(h) >= 2 /\ Slice(h, 0, 2) = <<255, 10>>
    \/ Len(h) >= 12 /\ Slice(h, 0, 12) = <<0, 0, 0, 12, 74, 88, 76, 32, 13, 10, 135, 10>>

bmp_matches(h) == Len(h) >= 2 /\ Slice(h, 0, 2) = <<66, 77>>

psd_matches(h) == Len(h) >= 4 /\ Slice(h, 0, 4) = <<56, 66, 80, 83>>

\* The modules of ICO, Aseprite, QOI, farbfeld and VTF are not among the
\* sources; their predicates test the formats' signatures: the ICO reserved
\* and type words, Aseprite's magic 0xA5E0 at offset 4, "qoif", "farbfeld",
\* and "VTF\0".
ico_matches(h) == StartsWith(h, <<0, 0, 1, 0>>)

aseprite_matches(h) == Len(h) >= 12 /\ Slice(h, 4, 6) = <<224, 165>>

qoi_matches(h) == StartsWith(h, <<113, 111, 105, 102>>)

farbfeld_matches(h) == StartsWith(h, <<102, 97, 114, 98, 102, 101, 108, 100>>)

vtf_matches(h) == StartsWith(h, <<86, 84, 70, 0>>)

astc_matches(h) == Len(h) >= 4 /\ Slice(h, 0, 4) = <<19, 171, 160, 92>>

\* PKM with an ATC data type: 0x8C92, 0x8C93, 0x87EE
atc_matches(h) ==
    /\ Len(h) >= 8
    /\ StartsWith(h, <<80, 75, 77, 32>>)
    /\ PkmVersion(h)
    /\ U16BE(h, 6) \in {35986, 35987, 34798}

\* legacy header size 52 | "PVR!" at 44 | "PVR\x03"
pvrtc_matches(h) ==
    \/ Len(h) >= 4 /\ Slice(h, 0, 4) = <<52, 0, 0, 0>>
    \/ Len(h) >= 48 /\ Slice(h, 44, 48) = <<80, 86, 82, 33>>
    \/ Len(h) >= 4 /\ StartsWith(h, <<80, 86, 82, 3>>)

\* PKM with an EAC data type: 0x1608..=0x160B
pkm_matches_eac_to_160A(h) ==
    /\ Len(h) >= 8
    /\ StartsWith(h, <<80, 75, 77, 32>>)
    /\ PkmVersion(h)
    /\ U16BE(h, 6) \in 5640..5642

pkm_matches_eac(h) ==
    /\ Len(h) >= 8
    /\ StartsWith(h, <<80, 75, 77, 32>>)
    /\ PkmVersion(h)
    /\ U16BE(h, 6) \in 5640..5643

pkm_matches(h) == Len(h) >= 6 /\ StartsWith(h, <<80, 75, 77, 32>>) /\ PkmVersion(h)

exr_matches(h) == StartsWith(h, <<118, 47, 49, 1>>)

\* "#?RADIANCE\n" | "#?RGBE\n"
hdr_matches(h) ==
    \/ StartsWith(h, <<35, 63, 82, 65, 68, 73, 65, 78, 67, 69, 10>>)
    \/ StartsWith(h, <<35, 63, 82, 71, 66, 69, 10>>)

dds_matches(h) == StartsWith(h, <<68, 68, 83, 32>>)

ktx2_matches(h) == StartsWith(h, <<171, 75, 84, 88, 32, 50, 48, 187, 13, 10, 26, 10>>)

\* header[0] is 'P'; the range test on header[1] is the source's
\* (header[1] < b'1' && header[1] > b'6')
pnm_matches(h) ==
    IF h[1] # 80 THEN FALSE
    ELSE IF h[2] < 49 /\ h[2] > 54 THEN FALSE
    ELSE TRUE

ilbm_matches(h) ==
    /\ Len(h) >= 12
    /\ Slice(h, 0, 4) = <<70, 79, 82, 77>>
    /\ (Slice(h, 8, 12) = <<73, 76, 66, 77>> \/ Slice(h, 8, 12) = <<80, 66, 77, 32>>)

\* image type (byte 2) uncompressed or RLE, colormap type (byte 1) 0 or 1
tga_matches(h) ==
    IF h[3] \notin {1, 2, 3, 9, 10, 11} THEN FALSE
    ELSE IF h[2] \notin {0, 1} THEN FALSE
    ELSE TRUE

\* A predicate called on its own, on a window h of any length.  Indexing a
\* slice beyond its length panics.
tga_matches_call(h) ==
    IF Len(h) < 3 THEN Panic("index out of bounds")
    ELSE OkBool(tga_matches(h))

pnm_matches_call(h) ==
    IF Len(h) < 1 THEN Panic("index out of bounds")
    ELSE IF h[1] # 80 THEN OkBool(FALSE)
    ELSE IF Len(h) < 2 THEN Panic("index out of bounds")
    ELSE OkBool(pnm_matches(h))

tiff_matches_call(h) ==
    IF StartsWith(h, <<73, 73>>) /\ Len(h) < 3 THEN Panic("index out of bounds")
    ELSE IF StartsWith(h, <<73, 73>>) /\ h[3] \in {42, 43} /\ Len(h) < 4
    THEN Panic("index out of bounds")
    ELSE IF StartsWith(h, <<77, 77, 0>>) /\ Len(h) < 4 THEN Panic("index out of bounds")
    ELSE OkBool(tiff_matches(h))

\* the predicates of the sources, by name; the others index behind a test
\* of the length or use starts_with
matches_call(e, h) ==
    CASE e = "tga::matches" -> tga_matches_call(h)
      [] e = "pnm::matches" -> pnm_matches_call(h)
      [] e = "tiff::matches" -> tiff_matches_call(h)
      [] e = "gif::matches" -> OkBool(gif_matches(h))
      [] e = "astc::matches" -> OkBool(astc_matches(h))
      [] e = "atc::matches" -> OkBool(atc_matches(h))
      [] e = "pvrtc::matches" -> OkBool(pvrtc_matches(h))
      [] e = "pkm::matches" -> OkBool(pkm_matches(h))
      [] e = "pkm::matches_eac" -> OkBool(pkm_matches_eac(h))
      [] e = "exr::matches" -> OkBool(exr_matches(h))
      [] e = "hdr::matches" -> OkBool(hdr_matches(h))
      [] e = "dds::matches" -> OkBool(dds_matches(h))
      [] e = "ktx2::matches" -> OkBool(ktx2_matches(h))
      [] e = "ilbm::matches" -> OkBool(ilbm_matches(h))
      [] e = "heif::matches" -> OkBool(heif_matches(h, h) # "None")

---------------------------------------------------------------------------
(* detect_compression of the multiplexed containers: the sub-tag, or "Err" *)
(* when a read fails.  Each seeks from the start of the reader d.          *)

atc_detect_compression(d) ==
    IF ~CanRead(d, 0, 8) THEN "Err"
    ELSE IF StartsWith(d, <<80, 75, 77, 32>>) /\ PkmVersion(d)
    THEN CASE U16BE(d, 6) = 35986 -> "Rgb"
           [] U16BE(d, 6) = 35987 -> "RgbaExplicit"
           [] U16BE(d, 6) = 34798 -> "RgbaInterpolated"
           [] OTHER -> "Unknown"
    ELSE "Unknown"

\* PVR v3 ("PVR\x03"): the 64-bit little-endian pixel format at offset 8.
\* Every value the match names is below 256: its seven upper bytes are 0.
pvrtc_detect_compression(d) ==
    IF ~CanRead(d, 0, 4) THEN "Err"
    ELSE IF Slice(d, 0, 4) # <<80, 86, 82, 3>> THEN "Unknown"
    ELSE IF ~CanRead(d, 8, 8) THEN "Err"
    ELSE IF Slice(d, 9, 16) # Zeros(7) THEN "Unknown"   \* pixel_format >= 256
    ELSE LET pixel_format == d[9] IN
         CASE pixel_format = 0 -> "Pvrtc2BppRgb"
           [] pixel_format = 1 -> "Pvrtc2BppRgba"
           [] pixel_format = 2 -> "Pvrtc4BppRgb"
           [] pixel_format = 3 -> "Pvrtc4BppRgba"
           [] pixel_format = 22 -> "Etc2Rgb"
           [] pixel_format = 23 -> "Etc2Rgba"
           [] pixel_format = 24 -> "Etc2RgbA1"
           [] pixel_format = 25 -> "EacR11"
           [] pixel_format = 26 -> "EacRg11"
           [] OTHER -> "Unknown"

\* the big-endian data type at offset 6
pkm_detect_compression(d) ==
    IF ~CanRead(d, 6, 2) THEN "Err"
    ELSE CASE U16BE(d, 6) = 0 -> "Etc1"
           [] U16BE(d, 6) = 1 -> "Etc2"
           [] U16BE(d, 6) = 2 -> "Etc2A1"
           [] U16BE(d, 6) = 3 -> "Etc2A8"
           [] U16BE(d, 6) = 4 -> "Etc2A1"
           [] U16BE(d, 6) = 5 -> "Etc2A8"
           [] U16BE(d, 6) = 5640 -> "EacRgSigned"
           [] U16BE(d, 6) = 5641 -> "EacRSigned"
           [] U16BE(d, 6) = 5642 -> "EacR"
           [] U16BE(d, 6) = 5643 -> "EacRg"
           [] OTHER -> "Unknown"

\* the pixel format's FourCC at offset 84; DX10 reads the DXGI format at 128,
\* no FourCC reads the RGB bit count that follows at 88
dds_detect_compression(d) ==
    IF ~CanRead(d, 84, 4) THEN "Err"
    ELSE LET fourcc == Slice(d, 84, 88) IN
         CASE fourcc = <<68, 88, 84, 49>> -> "Bc1"
           [] fourcc = <<68, 88, 84, 51>> -> "Bc2"
           [] fourcc = <<68, 88, 84, 53>> -> "Bc3"
           [] fourcc \in {<<65, 84, 73, 49>>, <<66, 67, 52, 85>>, <<66, 67, 52, 83>>} -> "Bc4"
           [] fourcc \in {<<65, 84, 73, 50>>, <<66, 67, 53, 85>>, <<66, 67, 53, 83>>} -> "Bc5"
           [] fourcc = <<66, 67, 54, 72>> -> "Bc6h"
           [] fourcc \in {<<66, 67, 55, 85>>, <<66, 67, 55, 76>>} -> "Bc7"
           [] fourcc = <<68, 88, 49, 48>> ->
                IF ~CanRead(d, 128, 4) THEN "Err"
                ELSE IF U32LE(d, 128) \in {95, 96} THEN "Bc6h"
                ELSE IF U32LE(d, 128) \in {98, 99} THEN "Bc7"
                ELSE "Unknown"
           [] fourcc = <<0, 0, 0, 0>> ->
                IF ~CanRead(d, 88, 4) THEN "Err"
                ELSE IF U32LE(d, 88) = 32 THEN "Rgba32"
                ELSE IF U32LE(d, 88) = 24 THEN "Rgb24"
                ELSE "Unknown"
           [] OTHER -> "Unknown"

\* detect_compression(reader) whose error is kept as the sub-tag
KeepErr(c) == c

\* detect_compression(reader).unwrap_or(Unknown)
UnwrapOrUnknown(c) == IF c = "Err" THEN "Unknown" ELSE c

---------------------------------------------------------------------------
(* The dispatchers.                                                        *)

\* formats::image_type with the ETC2 test ahead of the EAC test
classify_etc2_first(h, d) ==
    IF jpeg_matches(h) THEN OkType("Jpeg", "")
    ELSE IF png_matches(h) THEN OkType("Png", "")
    ELSE IF gif_matches(h) THEN OkType("Gif", "")
    ELSE IF tiff_matches(h) THEN OkType("Tiff", "")
    ELSE IF webp_matches(h) THEN OkType("Webp", "")
    ELSE IF heif_matches(h, d) # "None" THEN OkType("Heif", heif_matches(h, d))
    ELSE IF jxl_matches(h) THEN OkType("Jxl", "")
    ELSE IF bmp_matches(h) THEN OkType("Bmp", "")
    ELSE IF psd_matches(h) THEN OkType("Psd", "")
    ELSE IF ico_matches(h) THEN OkType("Ico", "")
    ELSE IF aseprite_matches(h) THEN OkType("Aseprite", "")
    ELSE IF astc_matches(h) THEN OkType("Astc", "")
    ELSE IF atc_matches(h) THEN OkType("Atc", UnwrapOrUnknown(atc_detect_compression(d)))
    ELSE IF pvrtc_matches(h) THEN OkType("Pvrtc", UnwrapOrUnknown(pvrtc_detect_compression(d)))
    ELSE IF pkm_matches(h) THEN OkType("Etc2", UnwrapOrUnknown(pkm_detect_compression(d)))
    ELSE IF pkm_matches_eac(h) THEN OkType("Eac", UnwrapOrUnknown(pkm_detect_compression(d)))
    ELSE IF exr_matches(h) THEN OkType("Exr", "")
    ELSE IF hdr_matches(h) THEN OkType("Hdr", "")
    ELSE IF dds_matches(h) THEN OkType("Dds", UnwrapOrUnknown(dds_detect_compression(d)))
    ELSE IF ktx2_matches(h) THEN OkType("Ktx2", "")
    ELSE IF qoi_matches(h) THEN OkType("Qoi", "")
    ELSE IF farbfeld_matches(h) THEN OkType("Farbfeld", "")
    ELSE IF pnm_matches(h) THEN OkType("Pnm", "")
    ELSE IF vtf_matches(h) THEN OkType("Vtf", "")
    ELSE IF ilbm_matches(h) THEN OkType("Ilbm", "")
    ELSE IF tga_matches(h) THEN OkType("Tga", "")
    ELSE Err("NotSupported")

\* formats::image_type after the header is read: the predicates in the
\* source's order; the first hit returns.  h is the 12-byte header, d the
\* reader's bytes.
classify(h, d) ==
    IF jpeg_matches(h) THEN OkType("Jpeg", "")
    ELSE IF png_matches(h) THEN OkType("Png", "")
    ELSE IF gif_matches(h) THEN OkType("Gif", "")
    ELSE IF tiff_matches(h) THEN OkType("Tiff", "")
    ELSE IF webp_matches(h) THEN OkType("Webp", "")
    ELSE IF heif_matches(h, d) # "None" THEN OkType("Heif", heif_matches(h, d))
    ELSE IF jxl_matches(h) THEN OkType("Jxl", "")
    ELSE IF bmp_matches(h) THEN OkType("Bmp", "")
    ELSE IF psd_matches(h) THEN OkType("Psd", "")
    ELSE IF ico_matches(h) THEN OkType("Ico", "")
    ELSE IF aseprite_matches(h) THEN OkType("Aseprite", "")
    ELSE IF astc_matches(h) THEN OkType("Astc", "")
    ELSE IF atc_matches(h) THEN OkType("Atc", UnwrapOrUnknown(atc_detect_compression(d)))
    ELSE IF pvrtc_matches(h) THEN OkType("Pvrtc", UnwrapOrUnknown(pvrtc_detect_compression(d)))
    ELSE IF pkm_matches_eac(h) THEN OkType("Eac", UnwrapOrUnknown(pkm_detect_compression(d)))
    ELSE IF pkm_matches(h) THEN OkType("Etc2", UnwrapOrUnknown(pkm_detect_compression(d)))
    ELSE IF exr_matches(h) THEN OkType("Exr", "")
    ELSE IF hdr_matches(h) THEN OkType("Hdr", "")
    ELSE IF dds_matches(h) THEN OkType("Dds", UnwrapOrUnknown(dds_detect_compression(d)))
    ELSE IF ktx2_matches(h) THEN OkType("Ktx2", "")
    ELSE IF qoi_matches(h) THEN OkType("Qoi", "")
    ELSE IF farbfeld_matches(h) THEN OkType("Farbfeld", "")
    ELSE IF pnm_matches(h) THEN OkType("Pnm", "")
    ELSE IF vtf_matches(h) THEN OkType("Vtf", "")
    ELSE IF ilbm_matches(h) THEN OkType("Ilbm", "")
    ELSE IF tga_matches(h) THEN OkType("Tga", "")
    ELSE Err("NotSupported")

\* formats::image_type that takes what the reader has (read in place of
\* read_exact), the rest of the header 0
image_type_short_read(d) ==
    classify(IF Len(d) < 12 THEN d \o Zeros(12 - Len(d)) ELSE Slice(d, 0, 12), d)

\* formats::image_type(reader): reads the 12-byte header, then classifies
image_type(d) ==
    IF ~CanRead(d, 0, 12) THEN Err("UnexpectedEof")
    ELSE classify(Slice(d, 0, 12), d)

\* image_type(header) of lib.rs: a header of any length; each test is
\* guarded by the length it needs.
lib_image_type(h) ==
    IF Len(h) >= 2 THEN
         IF Slice(h, 0, 2) = <<66, 77>> THEN OkType("Bmp", "")
    ELSE IF Len(h) >= 3 /\ Slice(h, 0, 3) = <<255, 216, 255>> THEN OkType("Jpeg", "")
    ELSE IF Len(h) >= 4 /\ Slice(h, 0, 4) = <<137, 80, 78, 71>> THEN OkType("Png", "")
    ELSE IF Len(h) >= 4 /\ Slice(h, 0, 4) = <<71, 73, 70, 56>> THEN OkType("Gif", "")
    ELSE IF Len(h) >= 4 /\ (\/ Slice(h, 0, 4) = <<73, 73, 42, 0>>
                            \/ Slice(h, 0, 4) = <<77, 77, 0, 42>>) THEN OkType("Tiff", "")
    ELSE IF Len(h) >= 4 /\ Slice(h, 0, 4) = <<56, 66, 80, 83>> THEN OkType("Psd", "")
    ELSE IF Len(h) >= 8 /\ Slice(h, 4, 8) = <<102, 116, 121, 112>> THEN OkType("Heif", "")
    ELSE IF /\ Len(h) >= 12
            /\ Slice(h, 0, 4) = <<82, 73, 70, 70>>
            /\ Slice(h, 8, 12) = <<87, 69, 66, 80>> THEN OkType("Webp", "")
    ELSE IF \/ Len(h) >= 2 /\ Slice(h, 0, 2) = <<255, 10>>
            \/ Len(h) >= 12 /\ Slice(h, 0, 12) = <<0, 0, 0, 12, 74, 88, 76, 32, 13, 10, 135, 10>>
         THEN OkType("Jxl", "")
    ELSE Err("NotSupported")
    ELSE Err("UnexpectedEof")

---------------------------------------------------------------------------
(* The single-read parsers.  d is the whole input; each seeks to a fixed   *)
(* offset, so the position the caller left the reader at does not matter.  *)
(* A u32 is read as a number below 2^31 here: the inputs of this model     *)
(* keep the top bit of every 32-bit field clear.                           *)

bmp_size(d) ==
    IF ~CanRead(d, 18, 8) THEN Err("UnexpectedEof")
    ELSE OkSize(U32LE(d, 18), U32LE(d, 22))

\* indexes the 12-byte header the caller read
gif_size(h) == OkSize(U16LE(h, 6), U16LE(h, 8))

png_size(d) ==
    IF ~CanRead(d, 16, 8) THEN Err("UnexpectedEof")
    ELSE OkSize(U32BE(d, 16), U32BE(d, 20))

\* psd_size that takes the first field for the width
psd_size_width_first(d) ==
    IF ~CanRead(d, 14, 8) THEN Err("UnexpectedEof")
    ELSE OkSize(U32BE(d, 14), U32BE(d, 18))

\* height first, then width
psd_size(d) ==
    IF ~CanRead(d, 14, 8) THEN Err("UnexpectedEof")
    ELSE OkSize(U32BE(d, 18), U32BE(d, 14))

\* webp_vp8x_size that takes the stored values as the dimensions
webp_vp8x_size_stored(d) ==
    IF ~CanRead(d, 24, 6) THEN Err("UnexpectedEof")
    ELSE OkSize(U24LE(d, 24), U24LE(d, 27))

webp_vp8x_size(d) ==
    IF ~CanRead(d, 24, 6) THEN Err("UnexpectedEof")
    ELSE OkSize(U24LE(d, 24) + 1, U24LE(d, 27) + 1)

webp_vp8l_size(d) ==
    IF ~CanRead(d, 21, 4) THEN Err("UnexpectedEof")
    ELSE LET dims == U32LE(d, 21) IN
         OkSize((dims % 16384) + 1, ((dims \div 16384) % 16384) + 1)

webp_vp8_size(d) ==
    IF ~CanRead(d, 26, 4) THEN Err("UnexpectedEof")
    ELSE OkSize(U16LE(d, 26), U16LE(d, 28))

\* the reader stands at 12, after the header: the chunk tag is d[12..16]
webp_size(d) ==
    IF ~CanRead(d, 12, 4) THEN Err("UnexpectedEof")
    ELSE IF d[16] = 32 THEN webp_vp8_size(d)
    ELSE IF d[16] = 76 THEN webp_vp8l_size(d)
    ELSE IF d[16] = 88 THEN webp_vp8x_size(d)
    ELSE Err("InvalidData")

\* container::pkm::size: extended width and height at 8, then width, height
pkm_size(d) ==
    IF ~CanRead(d, 8, 8) THEN Err("UnexpectedEof")
    ELSE OkSize(U16BE(d, 12), U16BE(d, 14))

\* container::dds::size: height, then width, at 12
dds_size(d) ==
    IF ~CanRead(d, 12, 8) THEN Err("UnexpectedEof")
    ELSE OkSize(U32LE(d, 16), U32LE(d, 12))

\* formats::tga::size: reads the 18-byte header whole
tga_size(d) ==
    IF ~CanRead(d, 0, 18) THEN Err("UnexpectedEof")
    ELSE OkSize(U16LE(d, 12), U16LE(d, 14))

---------------------------------------------------------------------------
(* JPEG-XL: the bit-packed header.  The u128 window is kept as its 16      *)
(* little-endian bytes (zero where nothing was read): bit i of the window  *)
(* is bit i % 8 of byte i / 8.                                             *)

BitAt(source, i) == (source[(i \div 8) + 1] \div (2 ^ (i % 8))) % 2

RECURSIVE Field(_, _, _)
\* (source >> offset) & ((1 << num_bits) - 1)
Field(source, num_bits, offset) ==
    IF num_bits = 0 THEN 0
    ELSE BitAt(source, offset) + 2 * Field(source, num_bits - 1, offset + 1)

\* read_bits: the field, or -1 for Err(CorruptedImage)
read_bits(source, num_bits, offset, size) ==
    IF offset + num_bits < size THEN Field(source, num_bits, offset) ELSE -1

\* read_bits called on its own: d holds num_bits, offset, size and the low
\* bytes of source.  1 << num_bits is a shift of a 64-bit usize: for
\* num_bits >= 64 a build with overflow checks panics and one without
\* shifts by num_bits % 64.
read_bits_call(d, checks) ==
    LET num_bits == d[1]
        offset   == d[2]
        size     == d[3]
        source   == [i \in 1..16 |-> IF i + 3 <= Len(d) THEN d[i + 3] ELSE 0]
    IN  IF offset + num_bits < size
        THEN IF num_bits >= 64
             THEN IF checks THEN Return(Panic("shift overflow"), NoLoc)
                  ELSE Return(OkBits(Field(source, num_bits % 64, offset)), NoLoc)
             ELSE Return(OkBits(read_bits(source, num_bits, offset, size)), NoLoc)
        ELSE Return(Err("CorruptedImage"), NoLoc)

\* (bits, shift) of a dimension field for the small flag and the selector
DimBits_13_for_2(is_small, selector) ==
    IF is_small THEN <<5, 3>>
    ELSE IF selector = 0 THEN <<9, 0>> ELSE IF selector = 3 THEN <<30, 0>> ELSE <<13, 0>>

DimBits(is_small, selector) ==
    IF is_small THEN <<5, 3>>
    ELSE CASE selector = 0 -> <<9, 0>>
           [] selector = 1 -> <<13, 0>>
           [] selector = 2 -> <<18, 0>>
           [] selector = 3 -> <<30, 0>>
           [] OTHER -> <<0, 0>>

\* the width that ratio (1..7) derives from the height
RatioWidth(ratio, height) ==
    CASE ratio = 1 -> height
      [] ratio = 2 -> (height \div 10) * 12
      [] ratio = 3 -> (height \div 3) * 4
      [] ratio = 4 -> (height \div 2) * 3
      [] ratio = 5 -> (height \div 9) * 16
      [] ratio = 6 -> (height \div 4) * 5
      [] ratio = 7 -> height * 2

\* the orientation read at metadata_offset: all_default, extra_fields, code
JxlOrient_whole_window(file_header, mo, size, width, height) ==
    LET all_default  == read_bits(file_header, 1, mo, 128)
        extra_fields == read_bits(file_header, 1, mo + 1, 128)
        code         == read_bits(file_header, 3, mo + 2, 128)
        orientation  == IF all_default = 1 THEN 0
                        ELSE IF extra_fields = 0 THEN 0 ELSE code
    IN  IF orientation < 4 THEN OkSize(width, height)
        ELSE OkSize(height, width)

JxlOrient_ignores_flags(file_header, mo, size, width, height) ==
    LET code == read_bits(file_header, 3, mo + 2, size)
    IN  IF code = -1 THEN Err("CorruptedImage")
        ELSE IF code < 4 THEN OkSize(width, height)
        ELSE OkSize(height, width)

JxlOrient(file_header, mo, size, width, height) ==
    LET all_default  == read_bits(file_header, 1, mo, size)
        extra_fields == read_bits(file_header, 1, mo + 1, size)
        code         == read_bits(file_header, 3, mo + 2, size)
        orientation  == IF all_default = 1 THEN 0
                        ELSE IF extra_fields = 0 THEN 0 ELSE code
    IN  IF all_default = -1 THEN Err("CorruptedImage")
        ELSE IF all_default = 0 /\ extra_fields = -1 THEN Err("CorruptedImage")
        ELSE IF all_default = 0 /\ extra_fields = 1 /\ code = -1 THEN Err("CorruptedImage")
        ELSE IF orientation < 4 THEN OkSize(width, height)
        ELSE OkSize(height, width)

\* the rest of jxl_size once file_header (16 bytes) holds header_size bytes
jxl_decode(file_header, header_size) ==
    LET size      == 8 * header_size
        small     == read_bits(file_header, 1, 16, size)
        hsel      == read_bits(file_header, 2, 17, size)
        hdim      == DimBits(small # 0, hsel)
        hbits     == hdim[1]
        hoff      == IF small # 0 THEN 17 ELSE 19
        hraw      == read_bits(file_header, hbits, hoff, size)
        height    == (hraw + 1) * (2 ^ hdim[2])
        ratio     == read_bits(file_header, 3, hbits + hoff, size)
        wsel      == read_bits(file_header, 2, hbits + hoff + 3, 128)
        wdim      == DimBits(small # 0, wsel)
        wbits     == wdim[1]
        woff      == IF small # 0 THEN 25 ELSE hbits + hoff + 5
        wraw      == read_bits(file_header, wbits, woff, size)
        width     == IF ratio = 0 THEN (wraw + 1) * (2 ^ wdim[2])
                     ELSE RatioWidth(ratio, height)
        mo        == IF ratio = 0 THEN wbits + woff ELSE hbits + hoff + 3
    IN  IF header_size < 2 THEN Err("CorruptedImage")
        ELSE IF Slice(file_header, 0, 2) # <<255, 10>> THEN Err("InvalidData")
        ELSE IF small = -1 \/ hsel = -1 \/ hraw = -1 \/ ratio = -1 THEN Err("CorruptedImage")
        ELSE IF ratio = 0 /\ wraw = -1 THEN Err("CorruptedImage")
        ELSE JxlOrient(file_header, mo, size, width, height)

\* reader.read(&mut buf[..n]) on a Cursor at offset p: the bytes it yields
ReadUpTo(d, p, n) == IF p >= Len(d) THEN <<>> ELSE Slice(d, p, Min(p + n, Len(d)))

\* file_header with seq written at offset at
PutAt(file_header, at, seq) ==
    [i \in 1..16 |-> IF i > at /\ i <= at + Len(seq) THEN seq[i - at] ELSE file_header[i]]

---------------------------------------------------------------------------
(* The parsers that loop, one operator per loop iteration: from the        *)
(* reader d at position p with locals l to the next control point.         *)

\* jpeg_size whose skip counts the length from the marker, not from the
\* length field
JpegMarker_from_marker(d, p, l) ==
    IF ~CanRead(d, p, 2) THEN Return(Err("UnexpectedEof"), l)
    ELSE IF d[p + 1] # 255 THEN Return(Err("CorruptedImage"), l)
    ELSE LET page  == d[p + 2]
             sof   == \/ page \in 192..195 \/ page \in 197..199
                      \/ page \in 201..203 \/ page \in 205..207
             depth == IF sof THEN l.depth
                      ELSE IF page = 216 THEN l.depth + 1
                      ELSE IF page = 217 THEN l.depth - 1
                      ELSE l.depth
         IN  IF sof /\ l.depth = 0
             THEN \* skip 3 bytes to the height, then height and width
                  IF ~CanRead(d, p + 5, 4) THEN Return(Err("UnexpectedEof"), l)
                  ELSE Return(OkSize(U16BE(d, p + 7), U16BE(d, p + 5)), l)
             ELSE IF depth < 0 THEN Return(Err("CorruptedImage"), l)
             ELSE IF ~CanRead(d, p + 2, 2) THEN Return(Err("UnexpectedEof"), l)
             ELSE Goto("jpeg", p + 2 + (U16BE(d, p + 2) - 2), [l EXCEPT !.depth = depth])

\* jpeg_size that lets the depth go below 0
JpegMarker_depth_unchecked(d, p, l) ==
    IF ~CanRead(d, p, 2) THEN Return(Err("UnexpectedEof"), l)
    ELSE IF d[p + 1] # 255 THEN Return(Err("CorruptedImage"), l)
    ELSE LET page  == d[p + 2]
             sof   == \/ page \in 192..195 \/ page \in 197..199
                      \/ page \in 201..203 \/ page \in 205..207
             depth == IF sof THEN l.depth
                      ELSE IF page = 216 THEN l.depth + 1
                      ELSE IF page = 217 THEN l.depth - 1
                      ELSE l.depth
         IN  IF sof /\ l.depth = 0
             THEN IF ~CanRead(d, p + 5, 4) THEN Return(Err("UnexpectedEof"), l)
                  ELSE Return(OkSize(U16BE(d, p + 7), U16BE(d, p + 5)), l)
             ELSE IF ~CanRead(d, p + 2, 2) THEN Return(Err("UnexpectedEof"), l)
             ELSE Goto("jpeg", p + 4 + (U16BE(d, p + 2) - 2), [l EXCEPT !.depth = depth])

\* jpeg_size: one marker of the scan
JpegMarker(d, p, l) ==
    IF ~CanRead(d, p, 2) THEN Return(Err("UnexpectedEof"), l)
    ELSE IF d[p + 1] # 255 THEN Return(Err("CorruptedImage"), l)
    ELSE LET page  == d[p + 2]
             sof   == \/ page \in 192..195 \/ page \in 197..199
                      \/ page \in 201..203 \/ page \in 205..207
             depth == IF sof THEN l.depth
                      ELSE IF page = 216 THEN l.depth + 1
                      ELSE IF page = 217 THEN l.depth - 1
                      ELSE l.depth
         IN  IF sof /\ l.depth = 0
             THEN \* skip 3 bytes to the height, then height and width
                  IF ~CanRead(d, p + 5, 4) THEN Return(Err("UnexpectedEof"), l)
                  ELSE Return(OkSize(U16BE(d, p + 7), U16BE(d, p + 5)), l)
             ELSE IF depth < 0 THEN Return(Err("CorruptedImage"), l)
             ELSE IF ~CanRead(d, p + 2, 2) THEN Return(Err("UnexpectedEof"), l)
             ELSE Goto("jpeg", p + 4 + (U16BE(d, p + 2) - 2), [l EXCEPT !.depth = depth])

\* the end of the ipco scan: no ispe, the rotation, the result
HeifFinish(l) ==
    IF ~l.found_ispe THEN Return(Err("UnexpectedEof"), l)
    ELSE IF l.rotation = 1 \/ l.rotation = 3
    THEN Return(OkSize(l.max_height, l.max_width), l)
    ELSE Return(OkSize(l.max_width, l.max_height), l)

\* what follows skip_to_tag once it returned size for the tag it looked for
HeifFound(target, d, p, size, l) ==
    CASE target = "skip_meta" ->
            \* meta has a junk value after it
            IF ~CanRead(d, p, 4) THEN Return(Err("UnexpectedEof"), l)
            ELSE Goto("skip_iprp", p + 4, l)
      [] target = "skip_iprp" -> Goto("skip_ipco", p, l)
      [] target = "skip_ipco" -> Goto("ipco", p, [l EXCEPT !.ipco_size = size])

\* the tag skip_to_tag looks for at control point target
HeifTarget(target) ==
    CASE target = "skip_meta" -> <<109, 101, 116, 97>>
      [] target = "skip_iprp" -> <<105, 112, 114, 112>>
      [] target = "skip_ipco" -> <<105, 112, 99, 111>>

\* skip_to_tag: one box.  heif.rs skips a box of size >= 8; lib.rs fails
\* on size <= 8.
HeifSkipToTag(target, d, p, l) ==
    IF ~CanRead(d, p, 8) THEN Return(Err("UnexpectedEof"), l)
    ELSE LET size == U32BE(d, p) IN
         IF Slice(d, p + 4, p + 8) = HeifTarget(target)
         THEN HeifFound(target, d, p + 8, size, l)
         ELSE IF (IF l.legacy THEN size <= 8 ELSE size < 8)
         THEN Return(Err("InvalidData"), l)
         ELSE Goto(target, p + 8 + (size - 8), l)

\* heif size: one child box of ipco (one pass of the while let loop)
HeifIpco(d, p, l) ==
    IF ~CanRead(d, p, 8) THEN HeifFinish(l)
    ELSE LET size == U32BE(d, p)
             tag  == Slice(d, p + 4, p + 8)
         IN  IF size < 8 THEN Return(Err("CorruptedImage"), l)
             ELSE IF tag = <<105, 115, 112, 101>>
             THEN IF ~CanRead(d, p + 8, 12)
                  THEN Return(Err("UnexpectedEof"), [l EXCEPT !.found_ispe = TRUE])
                  ELSE LET width  == U32BE(d, p + 12)
                           height == U32BE(d, p + 16)
                           larger == width * height > l.max_width * l.max_height
                       IN  Goto("ipco", p + 20,
                                [l EXCEPT !.found_ispe = TRUE,
                                          !.max_width = IF larger THEN width ELSE @,
                                          !.max_height = IF larger THEN height ELSE @])
             ELSE IF tag = <<105, 114, 111, 116>>
             THEN IF ~CanRead(d, p + 8, 1) THEN Return(Err("UnexpectedEof"), l)
                  ELSE Goto("ipco", p + 9, [l EXCEPT !.rotation = d[p + 9]])
             ELSE IF size >= l.ipco_size THEN HeifFinish(l)
             ELSE Goto("ipco", p + 8 + (size - 8), [l EXCEPT !.ipco_size = @ - size])

\* a box size above the integers TLC has (2^31 - 1): every such box ends
\* past the end of any stream modelled here
Huge == 2147483647

\* u64::from_be_bytes of the extended box size
U64BE(d, p) ==
    IF Slice(d, p, p + 4) = <<0, 0, 0, 0>> /\ d[p + 5] < 128 THEN U32BE(d, p + 4)
    ELSE Huge

\* jxl_size, container format: one box of the walk
JxlBox(d, p, l) ==
    IF ~CanRead(d, p, 8) THEN Return(Err("UnexpectedEof"), l)
    ELSE LET box_type  == Slice(d, p + 4, p + 8)
             box_start == p
             small     == U32BE(d, p)
             extended  == small = 1
             box_size  == IF ~extended THEN small
                          ELSE IF CanRead(d, p + 8, 8) THEN U64BE(d, p + 8) ELSE 0
             q         == IF extended THEN p + 16 ELSE p + 8
             box_end   == IF box_size = Huge THEN Huge ELSE box_start + box_size
             box_header_size == q - box_start
             hs        == l.header_size
         IN  IF extended /\ ~CanRead(d, p + 8, 8) THEN Return(Err("UnexpectedEof"), l)
             ELSE IF box_size < box_header_size /\ box_size # 0
             THEN Return(Err("InvalidData"), l)
             ELSE IF box_type = <<106, 120, 108, 99>>        \* jxlc
             THEN LET read_end == IF box_size = 0 THEN 16
                                  ELSE Min(box_size - box_header_size, 16)
                      got      == ReadUpTo(d, q, read_end)
                  IN  Return(jxl_decode(PutAt(l.file_header, 0, got), Len(got)), l)
             ELSE IF box_type = <<106, 120, 108, 112>>       \* jxlp
             THEN IF ~CanRead(d, q, 4) THEN Return(Err("UnexpectedEof"), l)
                  ELSE IF box_size # 0 /\ box_size - box_header_size < 4
                  THEN Return(Err("InvalidData"), l)
                  ELSE LET read_end == IF box_size = 0 THEN 16 - hs
                                       ELSE Min(box_size - box_header_size - 4, 16 - hs) + hs
                           got      == ReadUpTo(d, q + 4, read_end - hs)
                           fh       == PutAt(l.file_header, hs, got)
                           nhs      == hs + Len(got)
                           nl       == [l EXCEPT !.file_header = fh, !.header_size = nhs]
                       IN  IF read_end < hs THEN Return(Err("InvalidData"), l)
                           ELSE IF nhs = 16 \/ d[q + 1] >= 128 \/ box_size = 0
                           THEN Return(jxl_decode(fh, nhs), nl)
                           ELSE Goto("jxl_box", box_end, nl)
             ELSE IF box_size = 0 THEN Return(jxl_decode(l.file_header, hs), l)
             ELSE Goto("jxl_box", box_end, l)

\* ilbm size: one chunk of the walk.  chunk_length + chunk_length % 2 is u32
\* arithmetic: it overflows exactly for chunk_length = 0xFFFFFFFF, where a
\* build with overflow checks panics and one without wraps to 0.  Any other
\* chunk_length above 2^31 - 1 is outside the integers TLC has.
IlbmChunk(d, p, l, checks) ==
    IF ~CanRead(d, p, 8) THEN Return(Err("UnexpectedEof"), l)
    ELSE LET chunk_id == Slice(d, p, p + 4)
             all_ones == Slice(d, p + 4, p + 8) = <<255, 255, 255, 255>>
             chunk_length == IF all_ones THEN Huge ELSE U32BE(d, p + 4)
         IN  IF chunk_id = <<66, 77, 72, 68>>                \* BMHD
             THEN IF ~CanRead(d, p + 8, 4) THEN Return(Err("UnexpectedEof"), l)
                  ELSE Return(OkSize(U16BE(d, p + 8), U16BE(d, p + 10)), l)
             ELSE IF chunk_id = <<66, 79, 68, 89>>           \* BODY
             THEN Return(Err("CorruptedImage"), l)
             ELSE IF all_ones
             THEN IF checks THEN Return(Panic("attempt to add with overflow"), l)
                  ELSE Goto("ilbm", p + 8, l)
             ELSE Goto("ilbm", p + 8 + chunk_length + (chunk_length % 2), l)

\* String::from_utf8: is the byte sequence s well-formed UTF-8?
RECURSIVE IsUtf8(_)
IsUtf8(s) ==
    LET Cont(i) == i <= Len(s) /\ s[i] \in 128..191
        Rest(n) == IsUtf8(SubSeq(s, n + 1, Len(s)))
    IN  IF s = <<>> THEN TRUE
        ELSE IF s[1] < 128 THEN Rest(1)
        ELSE IF s[1] \in 194..223 THEN Cont(2) /\ Rest(2)
        ELSE IF s[1] \in 224..239
        THEN /\ Cont(2) /\ Cont(3)
             /\ (s[1] = 224 => s[2] >= 160)
             /\ (s[1] = 237 => s[2] <= 159)
             /\ Rest(3)
        ELSE IF s[1] \in 240..244
        THEN /\ Cont(2) /\ Cont(3) /\ Cont(4)
             /\ (s[1] = 240 => s[2] >= 144)
             /\ (s[1] = 244 => s[2] <= 143)
             /\ Rest(4)
        ELSE FALSE

\* the offset of the first 0 byte at or after p, or Len(d) when there is none
RECURSIVE FindNul(_, _)
FindNul(d, p) == IF p >= Len(d) \/ d[p + 1] = 0 THEN p ELSE FindNul(d, p + 1)

\* exr read_null_terminated_string at p: the string and the position after
\* its terminator, or the error
ReadCStr(d, p) ==
    LET z == FindNul(d, p) IN
    IF z >= Len(d) THEN [err |-> "UnexpectedEof", s |-> <<>>, next |-> z]
    ELSE IF ~IsUtf8(Slice(d, p, z)) THEN [err |-> "InvalidData", s |-> <<>>, next |-> z + 1]
    ELSE [err |-> "", s |-> Slice(d, p, z), next |-> z + 1]

MinI32 == -2147483647 - 1
MaxI32 == 2147483647

\* i32::from_le_bytes
I32LE(d, p) ==
    U24LE(d, p) + (d[p + 4] % 128) * 16777216 + (IF d[p + 4] >= 128 THEN MinI32 ELSE 0)

\* a - b in i32: does it overflow, and the value it wraps to
SubI32(a, b) ==
    IF b < 0 /\ a > MaxI32 + b THEN [ov |-> TRUE, v |-> (((a - MaxI32) - 1) - b) + MinI32]
    ELSE IF b > 0 /\ a < MinI32 + b THEN [ov |-> TRUE, v |-> (((a - MinI32) - b) + MaxI32) + 1]
    ELSE [ov |-> FALSE, v |-> a - b]

\* max - min + 1 in i32
Extent(max, min) ==
    LET s == SubI32(max, min) IN
    IF s.v = MaxI32 THEN [ov |-> TRUE, v |-> MinI32]
    ELSE [ov |-> s.ov, v |-> s.v + 1]

\* exr size: one attribute of the header.  A width or height below 0 stands
\* for the usize that `as usize` sign-extends it to, 2^64 + v.
ExrAttr(d, p, l, checks) ==
    LET attr_name == ReadCStr(d, p)
        attr_type == ReadCStr(d, attr_name.next)
        q         == attr_type.next
        attr_size == U32LE(d, q)
        w         == q + 4
    IN  IF attr_name.err # "" THEN Return(Err(attr_name.err), l)
        ELSE IF attr_name.s = <<>> THEN Return(Err("InvalidData"), l)
        ELSE IF attr_type.err # "" THEN Return(Err(attr_type.err), l)
        ELSE IF ~CanRead(d, q, 4) THEN Return(Err("UnexpectedEof"), l)
        ELSE IF /\ attr_name.s = <<100, 97, 116, 97, 87, 105, 110, 100, 111, 119>>
                /\ attr_type.s = <<98, 111, 120, 50, 105>>
        THEN IF ~CanRead(d, w, attr_size) THEN Return(Err("UnexpectedEof"), l)
             ELSE IF attr_size < 16 THEN Return(Panic("index out of bounds"), l)
             ELSE LET width  == Extent(I32LE(d, w + 8), I32LE(d, w))
                      height == Extent(I32LE(d, w + 12), I32LE(d, w + 4))
                  IN  IF checks /\ (width.ov \/ height.ov)
                      THEN Return(Panic("attempt to subtract with overflow"), l)
                      ELSE Return(OkSize(width.v, height.v), l)
        ELSE Goto("exr", w + attr_size, l)

\* tiff_size of lib.rs: the reads in the file's byte order
U16E(little, d, p) == IF little THEN U16LE(d, p) ELSE U16BE(d, p)
U32E(little, d, p) == IF little THEN U32LE(d, p) ELSE U32BE(d, p)

\* tiff_size of lib.rs: one pass of the loop over the IFD records; n records
\* are left
TiffEntry(d, p, l) ==
    IF l.n = 0 THEN Return(Err("InvalidData"), l)
    ELSE IF ~CanRead(d, p, 2) THEN Return(Err("UnexpectedEof"), l)
    ELSE LET tag   == U16E(l.little, d, p)
             dim   == tag = 256 \/ tag = 257
             kind  == U16E(l.little, d, p + 2)
             count == U32E(l.little, d, p + 4)
             skip_count == CASE kind = 1 \/ kind = 2 -> count
                             [] kind = 3 -> count * 2
                             [] kind = 4 -> count * 4
                             [] kind = 5 -> count * 8
                             [] OTHER -> -1
             value == U32E(l.little, d, p + 8)
             nl    == [l EXCEPT !.n = @ - 1,
                                !.width = IF tag = 256 THEN value ELSE @,
                                !.height = IF tag = 257 THEN value ELSE @]
             q     == IF dim THEN p + 12 ELSE p + 8 + skip_count
         IN  IF dim /\ ~CanRead(d, p + 8, 4) THEN Return(Err("UnexpectedEof"), l)
             ELSE IF ~dim /\ ~CanRead(d, p + 2, 6) THEN Return(Err("UnexpectedEof"), l)
             ELSE IF ~dim /\ skip_count = -1 THEN Return(Err("InvalidData"), l)
             ELSE IF nl.width # -1 /\ nl.height # -1
             THEN Return(OkSize(nl.width, nl.height), nl)
             ELSE Goto("tiff", q, nl)

\* formats/tiff.rs: the 64-bit read in the file's byte order; a value that
\* does not fit 31 bits is Huge
U64E(little, d, p) ==
    IF little
    THEN IF Slice(d, p + 4, p + 8) = <<0, 0, 0, 0>> /\ d[p + 4] < 128 THEN U32LE(d, p)
         ELSE Huge
    ELSE U64BE(d, p)

\* formats/tiff.rs size: the bytes of a value of IFD type kind, -1 for a type
\* the file must not carry
IfdValueBytes_lenient(kind, big) ==
    IF kind \in {3, 8} THEN 2 ELSE IF kind \in {4, 9, 11, 13} THEN 4 ELSE 1

IfdValueBytes(kind, big) ==
    CASE kind \in {1, 2, 6, 7} -> 1
      [] kind \in {3, 8} -> 2
      [] kind \in {4, 9, 11, 13} -> 4
      [] kind \in {5, 10} -> 8
      [] kind = 12 -> 8
      [] kind \in 16..18 -> IF big THEN 8 ELSE -1
      [] OTHER -> -1

\* formats/tiff.rs size: from the byte order mark to the count of the IFD
TiffSizeBegin(d) ==
    IF ~CanRead(d, 0, 2) THEN Return(Err("UnexpectedEof"), NoLoc)
    ELSE IF Slice(d, 0, 2) \notin {<<73, 73>>, <<77, 77>>} THEN Return(Err("InvalidData"), NoLoc)
    ELSE IF ~CanRead(d, 2, 2) THEN Return(Err("UnexpectedEof"), NoLoc)
    ELSE LET little      == Slice(d, 0, 2) = <<73, 73>>
             type_marker == U16E(little, d, 2)
             big         == type_marker = 43
             l           == [NoLoc EXCEPT !.little = little, !.big = big]
         IN  IF type_marker \notin {42, 43} THEN Return(Err("InvalidData"), NoLoc)
             ELSE IF big /\ ~CanRead(d, 4, 2) THEN Return(Err("UnexpectedEof"), NoLoc)
             ELSE IF big /\ U16E(little, d, 4) # 8 THEN Return(Err("InvalidData"), NoLoc)
             ELSE IF big /\ ~CanRead(d, 6, 2) THEN Return(Err("UnexpectedEof"), NoLoc)
             ELSE IF big /\ U16E(little, d, 6) # 0 THEN Return(Err("InvalidData"), NoLoc)
             ELSE IF ~CanRead(d, IF big THEN 8 ELSE 4, IF big THEN 8 ELSE 4)
             THEN Return(Err("UnexpectedEof"), NoLoc)
             ELSE LET ifd_offset == IF big THEN U64E(little, d, 8) ELSE U32E(little, d, 4)
                  IN  IF ifd_offset = 0 THEN Return(Err("InvalidData"), NoLoc)
                      ELSE IF ~CanRead(d, ifd_offset, IF big THEN 8 ELSE 2)
                      THEN Return(Err("UnexpectedEof"), NoLoc)
                      ELSE IF big
                      THEN Goto("ifd", ifd_offset + 8, [l EXCEPT !.n = U64E(little, d, ifd_offset)])
                      ELSE Goto("ifd", ifd_offset + 2, [l EXCEPT !.n = U16E(little, d, ifd_offset)])

\* formats/tiff.rs size: one pass of the loop over the IFD entries; n entries
\* are left; -1 is None
IfdEntry_reads_on(d, p, l) ==
    IF l.n = 0
    THEN IF l.width # -1 /\ l.height # -1 THEN Return(OkSize(l.width, l.height), l)
         ELSE Return(Err("InvalidData"), l)
    ELSE LET ifd_value_length == IF l.big THEN 8 ELSE 4
             vp == p + 4 + ifd_value_length
         IN  IF ~CanRead(d, p, 4 + ifd_value_length) THEN Return(Err("UnexpectedEof"), l)
             ELSE LET tag  == U16E(l.little, d, p)
                      kind == U16E(l.little, d, p + 2)
                      value_bytes == IfdValueBytes(kind, l.big)
                  IN  IF value_bytes = -1 THEN Return(Err("InvalidData"), l)
                      ELSE IF ~CanRead(d, vp, ifd_value_length) THEN Return(Err("InvalidData"), l)
                      ELSE LET value == CASE value_bytes = 2 -> U16E(l.little, d, vp)
                                          [] value_bytes = 4 -> U32E(l.little, d, vp)
                                          [] OTHER -> -1
                               nl == [l EXCEPT !.n = @ - 1,
                                               !.width = IF tag = 256 THEN value ELSE @,
                                               !.height = IF tag = 257 THEN value ELSE @]
                           IN  Goto("ifd", vp + ifd_value_length, nl)

IfdEntry(d, p, l) ==
    IF l.n = 0 THEN Return(Err("InvalidData"), l)
    ELSE LET ifd_value_length == IF l.big THEN 8 ELSE 4
             vp == p + 4 + ifd_value_length
         IN  IF ~CanRead(d, p, 4 + ifd_value_length) THEN Return(Err("UnexpectedEof"), l)
             ELSE LET tag  == U16E(l.little, d, p)
                      kind == U16E(l.little, d, p + 2)
                      value_bytes == IfdValueBytes(kind, l.big)
                  IN  IF value_bytes = -1 THEN Return(Err("InvalidData"), l)
                      ELSE IF ~CanRead(d, vp, ifd_value_length) THEN Return(Err("InvalidData"), l)
                      ELSE LET value == CASE value_bytes = 2 -> U16E(l.little, d, vp)
                                          [] value_bytes = 4 -> U32E(l.little, d, vp)
                                          [] OTHER -> -1
                               nl == [l EXCEPT !.n = @ - 1,
                                               !.width = IF tag = 256 THEN value ELSE @,
                                               !.height = IF tag = 257 THEN value ELSE @]
                           IN  IF nl.width # -1 /\ nl.height # -1
                               THEN Return(OkSize(nl.width, nl.height), nl)
                               ELSE Goto("ifd", vp + ifd_value_length, nl)

\* ICO: one directory entry (16 bytes, of which the first two are the width
\* and the height, 0 for 256); n entries are left.  An entry that cannot be
\* read ends the scan with the largest size seen so far.  The module is not
\* among the sources: this follows the specification's description, which
\* leaves open what a directory without a readable entry yields.
IcoDim(b) == ((b + 255) % 256) + 1

IcoFinish(l) ==
    IF ~l.found_ispe THEN Return(Err("CorruptedImage"), l)
    ELSE Return(OkSize(l.max_width, l.max_height), l)

IcoEntry(d, p, l) ==
    IF l.n = 0 \/ ~CanRead(d, p, 2) THEN IcoFinish(l)
    ELSE LET width  == IcoDim(d[p + 1])
             height == IcoDim(d[p + 2])
             larger == ~l.found_ispe \/ width * height > l.max_width * l.max_height
         IN  Goto("ico", p + 16,
                  [l EXCEPT !.n = @ - 1, !.found_ispe = TRUE,
                            !.max_width = IF larger THEN width ELSE @,
                            !.max_height = IF larger THEN height ELSE @])

\* the derived Ord of ImageSize {width, height}: the fields in declaration
\* order
cmp(a, b) ==
    IF a.width < b.width THEN "Less"
    ELSE IF a.width > b.width THEN "Greater"
    ELSE IF a.height < b.height THEN "Less"
    ELSE IF a.height > b.height THEN "Greater"
    ELSE "Equal"

OkOrd(o) == [NoRes EXCEPT !.kind = "ord", !.tag = o]

---------------------------------------------------------------------------
(* The entry points: what a call does up to its first loop.                *)

\* tiff_size of lib.rs up to the loop over the IFD records
TiffBegin(d) ==
    LET little == Slice(d, 0, 2) = <<73, 73>>
        ifd_offset == U32E(little, d, 4)
        l == [NoLoc EXCEPT !.little = little]
    IN  IF ~CanRead(d, 0, 2) THEN Return(Err("UnexpectedEof"), NoLoc)
        ELSE IF ~little /\ Slice(d, 0, 2) # <<77, 77>> THEN Return(Err("InvalidData"), NoLoc)
        ELSE IF ~CanRead(d, 4, 4) THEN Return(Err("UnexpectedEof"), l)
        ELSE IF ifd_offset = 0 THEN Return(Err("InvalidData"), l)
        ELSE IF ~CanRead(d, ifd_offset, 2) THEN Return(Err("UnexpectedEof"), l)
        ELSE Goto("tiff", ifd_offset + 2, [l EXCEPT !.n = U16E(little, d, ifd_offset)])

\* jxl_size up to the box walk (container) or the decode (raw codestream)
JxlBegin(d) ==
    LET l == [NoLoc EXCEPT !.file_header = Zeros(16)] IN
    IF ~CanRead(d, 0, 2) THEN Return(Err("UnexpectedEof"), l)
    ELSE IF Slice(d, 0, 2) = <<255, 10>>
    THEN LET got == ReadUpTo(d, 2, 14) IN
         Return(jxl_decode(PutAt(PutAt(l.file_header, 0, Slice(d, 0, 2)), 2, got),
                           Len(got) + 2), l)
    ELSE Goto("jxl_box", 12, [l EXCEPT !.file_header = PutAt(@, 0, Slice(d, 0, 2))])

\* heif size up to the first skip_to_tag
HeifBegin(d, legacy) ==
    LET l == [NoLoc EXCEPT !.legacy = legacy] IN
    IF ~CanRead(d, 0, 4) THEN Return(Err("UnexpectedEof"), l)
    ELSE Goto("skip_meta", U32BE(d, 0), l)

\* dispatch_header of lib.rs
dispatch_header(d, header) ==
    LET t == lib_image_type(header) IN
    IF t.kind = "err" THEN Return(t, NoLoc)
    ELSE CASE t.tag = "Bmp"  -> Return(bmp_size(d), NoLoc)
           [] t.tag = "Gif"  -> Return(gif_size(header), NoLoc)
           [] t.tag = "Heif" -> HeifBegin(d, TRUE)
           [] t.tag = "Jpeg" -> Goto("jpeg", 2, NoLoc)
           [] t.tag = "Jxl"  -> JxlBegin(d)
           [] t.tag = "Png"  -> Return(png_size(d), NoLoc)
           [] t.tag = "Psd"  -> Return(psd_size(d), NoLoc)
           [] t.tag = "Tiff" -> TiffBegin(d)
           [] t.tag = "Webp" -> Return(webp_size(d), NoLoc)

\* blob_size of lib.rs: a Cursor over the bytes, the 12-byte header, the
\* dispatch
blob_size(d) ==
    IF ~CanRead(d, 0, 12) THEN Return(Err("UnexpectedEof"), NoLoc)
    ELSE dispatch_header(d, Slice(d, 0, 12))

\* exr size up to the attribute scan
ExrBegin(d) ==
    IF ~CanRead(d, 0, 4) THEN Return(Err("UnexpectedEof"), NoLoc)
    ELSE IF Slice(d, 0, 4) # <<118, 47, 49, 1>> THEN Return(Err("InvalidData"), NoLoc)
    ELSE Goto("exr", 8, NoLoc)

\* ICO up to the directory scan: the 16-bit count at offset 4
IcoBegin(d) ==
    IF ~CanRead(d, 4, 2) THEN Return(Err("UnexpectedEof"), NoLoc)
    ELSE Goto("ico", 6, [NoLoc EXCEPT !.n = U16LE(d, 4)])

MatchEntries ==
    {"tga::matches", "pnm::matches", "tiff::matches", "gif::matches", "astc::matches",
     "atc::matches", "pvrtc::matches", "pkm::matches", "pkm::matches_eac", "exr::matches",
     "hdr::matches", "dds::matches", "ktx2::matches", "ilbm::matches", "heif::matches"}

Entries == MatchEntries \cup {"image_type", "lib_image_type", "blob_size", "heif_size", "exr_size",
            "ilbm_size", "ico_size", "pkm_size", "dds_size", "tga_size", "cmp",
            "tiff_size", "jxl_size", "read_bits"}

\* the call of entry point e on input d
Begin(e, d) ==
    CASE e \in MatchEntries   -> Return(matches_call(e, d), NoLoc)
      [] e = "image_type"     -> Return(image_type(d), NoLoc)
      [] e = "lib_image_type" -> Return(lib_image_type(d), NoLoc)
      [] e = "blob_size"      -> blob_size(d)
      [] e = "heif_size"      -> HeifBegin(d, FALSE)
      [] e = "exr_size"       -> ExrBegin(d)
      [] e = "ilbm_size"      -> Goto("ilbm", 12, NoLoc)
      [] e = "ico_size"       -> IcoBegin(d)
      [] e = "pkm_size"       -> Return(pkm_size(d), NoLoc)
      [] e = "dds_size"       -> Return(dds_size(d), NoLoc)
      [] e = "tga_size"       -> Return(tga_size(d), NoLoc)
      [] e = "tiff_size"      -> TiffSizeBegin(d)
      [] e = "jxl_size"       -> JxlBegin(d)
      [] e = "read_bits"      -> Goto("read_bits", 0, NoLoc)
      [] e = "cmp"            -> Return(OkOrd(cmp([width |-> d[1], height |-> d[2]],
                                                  [width |-> d[3], height |-> d[4]])), NoLoc)

---------------------------------------------------------------------------
(* Inputs.  Files are built from their parts, so that the property of a    *)
(* file (the dimensions it declares, where it is cut) is known.            *)

RECURSIVE Flatten(_)
Flatten(ss) == IF ss = <<>> THEN <<>> ELSE Head(ss) \o Flatten(Tail(ss))

\* the sequences over S of length 0..n
RECURSIVE SeqsUpTo(_, _)
SeqsUpTo(S, n) ==
    IF n = 0 THEN {<<>>}
    ELSE LET R == SeqsUpTo(S, n - 1) IN R \cup {Append(r, x) : r \in R, x \in S}

\* the proper prefixes of d
Cuts(d) == {SubSeq(d, 1, k) : k \in 0..(Len(d) - 1)}

\* the bytes of the ASCII tags
T_ftyp == <<102, 116, 121, 112>>
T_meta == <<109, 101, 116, 97>>
T_iprp == <<105, 112, 114, 112>>
T_ipco == <<105, 112, 99, 111>>
T_ispe == <<105, 115, 112, 101>>
T_irot == <<105, 114, 111, 116>>
T_free == <<102, 114, 101, 101>>
T_heic == <<104, 101, 105, 99>>
T_avif == <<97, 118, 105, 102>>
T_mif1 == <<109, 105, 102, 49>>
T_jxlc == <<106, 120, 108, 99>>
T_jxlp == <<106, 120, 108, 112>>
T_RIFF == <<82, 73, 70, 70>>
T_WEBP == <<87, 69, 66, 80>>
T_FORM == <<70, 79, 82, 77>>
T_ILBM == <<73, 76, 66, 77>>
T_BMHD == <<66, 77, 72, 68>>
T_BODY == <<66, 79, 68, 89>>
T_ANNO == <<65, 78, 78, 79>>

\* an ISO-BMFF box: big-endian size, tag, payload
Box(size, tag, payload) == BytesBE(size, 4) \o tag \o payload

\* --- HEIF ---------------------------------------------------------------
MaxChildren == 3

IspeDims == {<<0, 5>>, <<1, 10>>, <<2, 2>>, <<3, 3>>}

Ispe(w, h) == Box(20, T_ispe, <<0, 0, 0, 0>> \o BytesBE(w, 4) \o BytesBE(h, 4))
Irot(r) == Box(9, T_irot, <<r>>)

\* the children of ipco the inputs draw from: ispe boxes, irot boxes, a box
\* that is only its header, a box shorter than its header, a box larger
\* than the stream
HeifChildren ==
    {Ispe(wh[1], wh[2]) : wh \in IspeDims} \cup {Irot(r) : r \in 0..3}
        \cup {Box(8, T_free, <<>>), Box(7, T_free, <<>>), Box(1000, T_free, <<>>)}

\* a file: ftyp, the boxes of pre, then meta > iprp > ipco > children
HeifFile(brand, pre, children) ==
    LET body == Flatten(children) IN
    Box(12, T_ftyp, brand) \o pre
        \o BytesBE(36 + Len(body), 4) \o T_meta \o <<0, 0, 0, 0>>
        \o BytesBE(16 + Len(body), 4) \o T_iprp
        \o BytesBE(8 + Len(body), 4) \o T_ipco \o body

HeifWhole == {HeifFile(T_heic, <<>>, cs) : cs \in SeqsUpTo(HeifChildren, MaxChildren)}

\* files with a box before meta
HeifPre ==
    {HeifFile(T_avif, pre, <<c>>) :
        pre \in {Box(8, T_free, <<>>), Box(7, T_free, <<>>), Box(1000, T_free, <<>>),
                 Box(9, T_free, <<0>>)},
        c \in HeifChildren}

\* two images, or an image and its rotation
HeifPairs ==
    {<<Ispe(ab[1][1], ab[1][2]), Ispe(ab[2][1], ab[2][2])>> :
        ab \in {x \in IspeDims \X IspeDims : x[1] # x[2]}}
        \cup {<<Ispe(a[1], a[2]), Irot(1)>> : a \in IspeDims}

HeifCut == UNION {Cuts(HeifFile(T_heic, <<>>, cs)) : cs \in HeifPairs}

\* a file whose ipco ends after the boxes of inside: the boxes of outside
\* follow the end of ipco (and of iprp and meta)
HeifTrail(inside, outside) ==
    HeifFile(T_heic, <<>>, inside) \o Flatten(outside)

\* an image inside ipco; a larger image, a rotation, or a free box and a
\* larger image, past its end
HeifTrails ==
    {HeifTrail(<<Ispe(2, 2)>>, outside) :
        outside \in {<<Ispe(3, 3)>>, <<Irot(1)>>, <<Irot(3), Ispe(1, 10)>>,
                     <<Box(8, T_free, <<>>), Ispe(3, 3)>>, <<Box(1000, T_free, <<>>), Ispe(3, 3)>>}}
        \cup {HeifTrail(<<Ispe(1, 10), Box(8, T_free, <<>>)>>, <<Ispe(3, 3)>>),
              HeifTrail(<<Irot(1), Ispe(1, 10)>>, <<Irot(0)>>)}

HeifInputs == HeifWhole \cup HeifPre \cup HeifCut \cup HeifTrails

\* --- JPEG ---------------------------------------------------------------
MaxSegments == 3

\* a segment: marker FF page, 16-bit length, payload
Segment(page, len, payload) == <<255, page>> \o BytesBE(len, 2) \o payload

\* SOF0: length 11, precision, height, width
Sof(h, w) == Segment(192, 11, <<8>> \o BytesBE(h, 2) \o BytesBE(w, 2) \o <<1, 1, 17, 0>>)

\* the segments the inputs draw from: APP0 with lengths 0, 1, 2, 4 and one
\* longer than the stream, a nested SOI, an EOI, two SOF0, bytes that are no
\* marker
JpegSegments ==
    {Segment(224, 0, <<>>), Segment(224, 1, <<>>), Segment(224, 2, <<>>),
     Segment(224, 4, <<7, 7>>), Segment(224, 1000, <<>>),
     Segment(216, 2, <<>>), Segment(217, 2, <<>>),
     Sof(300, 2), Sof(1, 65535), <<0, 0>>}

\* SOI, the segments, and what follows the header
JpegFile(segs) == <<255, 216>> \o Flatten(segs) \o Zeros(8)

\* SOI and EOI as the JPEG format writes them (two bytes, no length field),
\* or followed by a length of 2
Soi(lengths) == IF lengths THEN Segment(216, 2, <<>>) ELSE <<255, 216>>
Eoi(lengths) == IF lengths THEN Segment(217, 2, <<>>) ELSE <<255, 217>>

\* the <<height, width>> of the thumbnails and of the outer images
ThumbDims == {<<16, 16>>, <<1, 65535>>}
OuterDims == {<<300, 2>>, <<255, 256>>}

\* a JPEG with an embedded thumbnail stream ahead of the outer frame: SOI,
\* the thumbnail's SOF0, EOI, the outer SOF0
JpegThumb(lengths, thumb, outer) ==
    JpegFile(<<Soi(lengths), Sof(thumb[1], thumb[2]), Eoi(lengths), Sof(outer[1], outer[2])>>)

JpegThumbs == {JpegThumb(lengths, t, o) : lengths \in BOOLEAN, t \in ThumbDims, o \in OuterDims}

JpegInputs ==
    {JpegFile(segs) : segs \in SeqsUpTo(JpegSegments, MaxSegments)}
        \cup Cuts(JpegFile(<<Segment(224, 4, <<7, 7>>), Sof(300, 2)>>))
        \cup JpegThumbs

\* --- JPEG-XL ------------------------------------------------------------
MaxBoxes == 2

JxlSignature == <<0, 0, 0, 12, 74, 88, 76, 32, 13, 10, 135, 10>>

\* codestream headers (after FF 0A):
\*   small, height 64, ratio 0, width 32, all_default
\*   not small, height 9 bits = 300, ratio 1 (1:1), all_default
\*   not small, height selector 3 (30 bits) = 70000, ratio 0, width selector
\*     3 = 80000, not all_default, extra_fields, orientation 6
Codestreams ==
    {<<255, 10, 15, 70>>,
     <<255, 10, 88, 153, 0>>,
     <<255, 10, 126, 139, 8, 0, 240, 31, 78, 0, 160, 1>>}

Jxlc(size, cs) == Box(size, T_jxlc, cs)
Jxlp(size, index, part) == Box(size, T_jxlp, <<index, 0, 0, 0>> \o part)

\* the boxes the inputs draw from
JxlBoxes ==
    UNION {{Jxlc(8 + Len(cs), cs), Jxlc(0, cs),
            Box(1, T_jxlc, BytesBE(0, 4) \o BytesBE(16 + Len(cs), 4) \o cs),
            Jxlp(12 + Len(cs), 128, cs), Jxlp(14, 0, SubSeq(cs, 1, 2)),
            Jxlp(0, 0, SubSeq(cs, 3, Len(cs)))} : cs \in Codestreams}
        \cup {Box(8, T_free, <<>>), Box(4, T_free, <<>>), Box(1000, T_free, <<>>),
              Box(0, T_free, <<>>), Box(1, T_free, <<>>), Jxlp(10, 0, <<>>)}

JxlFile(boxes) == JxlSignature \o Flatten(boxes)

JxlInputs ==
    {cs \o Zeros(k) : cs \in Codestreams, k \in {0, 8, 12}}
        \cup {JxlFile(bs) : bs \in SeqsUpTo(JxlBoxes, MaxBoxes)}
        \cup UNION {Cuts(JxlFile(<<Jxlc(8 + Len(cs), cs)>>)) : cs \in Codestreams}
        \cup UNION {Cuts(cs) : cs \in Codestreams}

\* --- JPEG-XL codestream headers, field by field --------------------------
\* the n low bits of v, lowest first
BitsOf(v, n) == [i \in 1..n |-> (v \div (2 ^ (i - 1))) % 2]

\* bit i (from 0) of bits, 0 behind its end
BitOr0(bits, i) == IF i < Len(bits) THEN bits[i + 1] ELSE 0

\* the bytes that hold bits, lowest bit first, the last byte filled with 0
Pack(bits) ==
    [k \in 1..((Len(bits) + 7) \div 8) |->
        LET b == 8 * (k - 1)
        IN  BitOr0(bits, b) + 2 * BitOr0(bits, b + 1) + 4 * BitOr0(bits, b + 2)
                + 8 * BitOr0(bits, b + 3) + 16 * BitOr0(bits, b + 4)
                + 32 * BitOr0(bits, b + 5) + 64 * BitOr0(bits, b + 6)
                + 128 * BitOr0(bits, b + 7)]

\* the width of the field a selector chooses
SelBits(sel) == CASE sel = 0 -> 9 [] sel = 1 -> 13 [] sel = 2 -> 18 [] sel = 3 -> 30

\* the field values tried in a field of n bits: 0, 3, 14 and the largest
\* (one less in a 30-bit field, so that twice the height stays below 2^31);
\* 3 alone where all is false
FieldVals(n, all) ==
    IF all THEN {0, 3, 14, IF n = 30 THEN 2 ^ 30 - 2 ELSE 2 ^ n - 1} ELSE {3}

\* all_default; not all_default without extra fields; not all_default with
\* extra fields and an orientation code
JxlMetas(all) ==
    IF all THEN {<<1>>, <<0, 0>>} \cup {<<0, 1>> \o BitsOf(code, 3) : code \in {0, 3, 4, 7}}
    ELSE {<<1>>, <<0, 1>> \o BitsOf(4, 3)}

\* the width part: nothing for a ratio of 1..7
JxlWidthParts(small, all) ==
    IF small THEN {BitsOf(w, 5) : w \in FieldVals(5, all)}
    ELSE UNION {{BitsOf(wsel, 2) \o BitsOf(w, SelBits(wsel)) : w \in FieldVals(SelBits(wsel), all)}
                    : wsel \in 0..3}

\* the bits behind the signature: small, height (selector), ratio, width
JxlBits(all) ==
    UNION {{<<1>> \o BitsOf(h, 5) \o BitsOf(ratio, 3) \o wp \o meta
               : h \in FieldVals(5, all), ratio \in 1..7, wp \in {<<>>}, meta \in JxlMetas(all)},
           {<<1>> \o BitsOf(h, 5) \o BitsOf(0, 3) \o wp \o meta
               : h \in FieldVals(5, all), wp \in JxlWidthParts(TRUE, all),
                 meta \in JxlMetas(all)}}
      \cup UNION {{<<0>> \o BitsOf(hsel, 2) \o BitsOf(h, SelBits(hsel)) \o BitsOf(ratio, 3) \o meta
                      : h \in FieldVals(SelBits(hsel), all), ratio \in 1..7,
                        meta \in JxlMetas(all)}
                    \cup {<<0>> \o BitsOf(hsel, 2) \o BitsOf(h, SelBits(hsel)) \o BitsOf(0, 3)
                              \o wp \o meta
                            : h \in FieldVals(SelBits(hsel), all),
                              wp \in JxlWidthParts(FALSE, all), meta \in JxlMetas(all)}
                  : hsel \in 0..3}

JxlHeaderBits == JxlBits(TRUE)

\* a raw codestream of 16 bytes or more
JxlCodestream(bits) == LET b == <<255, 10>> \o Pack(bits) IN b \o Zeros(18 - Len(b))

JxlFieldInputs == {JxlCodestream(bits) : bits \in JxlHeaderBits}

\* raw codestreams cut to every length from 2 to 16, the bytes behind the
\* cut filled with ones
JxlCutInputs ==
    {SubSeq(<<255, 10>> \o Pack(bits \o [i \in 1..128 |-> 1]), 1, n)
        : bits \in JxlBits(FALSE), n \in 2..16}

\* --- read_bits: num_bits, offset, size, and four bytes of the window -----
ReadBitsInputs ==
    {<<num_bits, offset, size>> \o bytes
        : num_bits \in {0, 1, 2, 3, 5, 9, 64}, offset \in {0, 7, 16, 17, 23, 31, 64},
          size \in {0, 16, 24, 32, 128}, bytes \in {<<255, 10, 7, 70>>, <<255, 10, 126, 11>>}}

\* --- JPEG-XL in jxlp boxes ------------------------------------------------
\* the codestream the fragments carry: 18 bytes, none of the last six zero
JxlpStream == <<255, 10, 126, 139, 8, 0, 240, 31, 78, 0, 160, 1, 1, 2, 3, 4, 5, 6>>

\* a jxlp box of payload part: form 0 has declared size 0 (to the end of the
\* stream), form 1 declared size 1 and an 8-byte size, form 2 a 4-byte size
JxlpBox(part, form, final) ==
    LET index == <<IF final THEN 128 ELSE 0, 0, 0, 0>>
    IN  CASE form = 0 -> Box(0, T_jxlp, index \o part)
          [] form = 1 -> Box(1, T_jxlp, BytesBE(0, 4) \o BytesBE(20 + Len(part), 4)
                                            \o index \o part)
          [] form = 2 -> Box(12 + Len(part), T_jxlp, index \o part)

\* the lengths of the fragments JxlpStream is cut into
JxlpSplits == {<<18>>, <<2, 16>>, <<6, 12>>, <<10, 8>>, <<2, 4, 12>>}

\* the fragments of a split, each <<payload, form, final>>; only the last
\* box may extend to the end of the stream
RECURSIVE JxlpPlans(_, _)
JxlpPlans(split, from) ==
    IF split = <<>> THEN {<<>>}
    ELSE LET part == SubSeq(JxlpStream, from + 1, from + Head(split))
         IN  {<< <<part, form, final>> >> \o rest
                 : form \in (IF Len(split) = 1 THEN {0, 1, 2} ELSE {1, 2}),
                   final \in BOOLEAN,
                   rest \in JxlpPlans(Tail(split), from + Head(split))}

JxlpAllPlans == UNION {JxlpPlans(split, 0) : split \in JxlpSplits}

JxlpFile(plan) ==
    JxlFile([i \in 1..Len(plan) |-> JxlpBox(plan[i][1], plan[i][2], plan[i][3])])

JxlpInputs == {JxlpFile(plan) : plan \in JxlpAllPlans}

\* --- the formats with dimensions at fixed offsets ------------------------
\* the values a 32-bit and a 16-bit field are given: the ends of the range
\* (TLC's integers end at 2^31 - 1) and the values around a byte boundary
Dims32 == {0, 1, 255, 256, 65536, 2147483647}
Dims16 == {0, 1, 255, 256, 65535}

\* PNG: signature, IHDR length and tag, width and height big-endian at 16, 20
MakePng(w, h) ==
    <<137, 80, 78, 71, 13, 10, 26, 10, 0, 0, 0, 13, 73, 72, 68, 82>>
        \o BytesBE(w, 4) \o BytesBE(h, 4) \o <<8, 6, 0, 0, 0>>

\* GIF: "GIF89a", width and height little-endian at 6, 8
MakeGif(w, h) == <<71, 73, 70, 56, 57, 97>> \o BytesLE(w, 2) \o BytesLE(h, 2) \o <<0, 0, 0>>

\* BMP: "BM", 16 bytes, width and height little-endian at 18, 22
MakeBmp(w, h) ==
    <<66, 77>> \o Zeros(12) \o <<40, 0, 0, 0>> \o BytesLE(w, 4) \o BytesLE(h, 4) \o <<1, 0>>

\* PSD: "8BPS", version 1, 6 reserved, channels, height and width big-endian
\* at 14, 18
MakePsd(w, h) ==
    <<56, 66, 80, 83, 0, 1>> \o Zeros(6) \o <<0, 3>> \o BytesBE(h, 4) \o BytesBE(w, 4)
        \o <<0, 8>>

\* PKM: "PKM 20", data type, extended width and height, width and height
\* big-endian at 12, 14
MakePkm(w, h) ==
    <<80, 75, 77, 32, 50, 48, 0, 1>> \o BytesBE(4, 2) \o BytesBE(4, 2)
        \o BytesBE(w, 2) \o BytesBE(h, 2)

\* DDS: "DDS ", header size 124, flags, height and width little-endian at
\* 12, 16
MakeDds(w, h) ==
    <<68, 68, 83, 32, 124, 0, 0, 0, 7, 16, 0, 0>> \o BytesLE(h, 4) \o BytesLE(w, 4)
        \o Zeros(4)

\* TGA: no id, no colormap, type 2, width and height little-endian at 12, 14
MakeTga(w, h) ==
    <<0, 0, 2>> \o Zeros(9) \o BytesLE(w, 2) \o BytesLE(h, 2) \o <<24, 0>>

\* WEBP: RIFF, size, WEBP, the chunk tag, the chunk
MakeWebp(tag4, chunk) == T_RIFF \o <<255, 0, 0, 0>> \o T_WEBP \o tag4 \o chunk

WebpFiles ==
    {MakeWebp(<<86, 80, 56, 88>>, <<10, 0, 0, 0, 0, 0, 0, 0>> \o BytesLE(99, 3) \o BytesLE(49, 3)),
     MakeWebp(<<86, 80, 56, 76>>, <<9, 0, 0, 0, 47, 99, 64, 12, 0>>),
     MakeWebp(<<86, 80, 56, 32>>, <<30, 0, 0, 0, 0, 0, 0, 157, 1, 42>> \o BytesLE(100, 2) \o BytesLE(50, 2)),
     MakeWebp(<<86, 80, 56, 65>>, Zeros(12))}

\* the values a 24-bit WEBP field and a 14-bit VP8L field are given
Dims24 == {0, 15, 31, 255, 256, 16777215}
Dims14 == {0, 15, 255, 256, 16383}

\* the values of the 4 bits above the two 14-bit fields of a VP8L word (the
\* alpha flag and the version); the top bit stays clear
Vp8lHigh == {0, 1, 7}

\* VP8X: chunk size, flags, reserved, the 24-bit width - 1 at 0x18 and
\* height - 1 at 0x1B
MakeVp8x(w, h) ==
    MakeWebp(<<86, 80, 56, 88>>, <<10, 0, 0, 0, 0, 0, 0, 0>> \o BytesLE(w, 3) \o BytesLE(h, 3))

\* VP8L: chunk size, the signature 0x2F, the 32-bit word at 0x15 of the two
\* 14-bit fields and the bits above them
MakeVp8l(w, h, high) ==
    MakeWebp(<<86, 80, 56, 76>>,
             <<9, 0, 0, 0, 47>> \o BytesLE(w + h * 16384 + high * 268435456, 4))

WebpDimFiles ==
    {MakeVp8x(w, h) : w \in Dims24, h \in Dims24}
        \cup {MakeVp8l(w, h, high) : w \in Dims14, h \in Dims14, high \in Vp8lHigh}

FixedInputs ==
    {MakePng(w, h) : w \in Dims32, h \in Dims32}
        \cup {MakeGif(w, h) : w \in Dims16, h \in Dims16}
        \cup {MakeBmp(w, h) : w \in Dims32, h \in Dims32}
        \cup {MakePsd(w, h) : w \in Dims32, h \in Dims32}
        \cup WebpFiles \cup UNION {Cuts(f) : f \in WebpFiles}
        \cup WebpDimFiles
        \cup Cuts(MakePng(256, 1)) \cup Cuts(MakeBmp(256, 1)) \cup Cuts(MakePsd(256, 1))

\* --- TIFF (lib.rs) ------------------------------------------------------
MaxEntries == 3

\* an IFD record: tag, type, count, value in the file's byte order
TiffRecord(little, tag, kind, count, value) ==
    IF little THEN BytesLE(tag, 2) \o BytesLE(kind, 2) \o BytesLE(count, 4) \o BytesLE(value, 4)
    ELSE BytesBE(tag, 2) \o BytesBE(kind, 2) \o BytesBE(count, 4) \o BytesBE(value, 4)

\* width, height, a record of 4 bytes (type 1, count 4), a record of an
\* unknown type
TiffRecords(little) ==
    {TiffRecord(little, 256, 4, 1, 640), TiffRecord(little, 257, 4, 1, 480),
     TiffRecord(little, 259, 1, 4, 1), TiffRecord(little, 259, 9, 1, 1)}

TiffFile(little, records) ==
    (IF little THEN <<73, 73, 42, 0>> \o BytesLE(8, 4) \o BytesLE(Len(records), 2)
     ELSE <<77, 77, 0, 42>> \o BytesBE(8, 4) \o BytesBE(Len(records), 2))
        \o Flatten(records) \o Zeros(4)

TiffInputs ==
    UNION {{TiffFile(little, rs) : rs \in SeqsUpTo(TiffRecords(little), MaxEntries)}
               \cup Cuts(TiffFile(little, <<TiffRecord(little, 259, 1, 4, 1),
                                            TiffRecord(little, 256, 4, 1, 640),
                                            TiffRecord(little, 257, 4, 1, 480)>>))
           : little \in BOOLEAN}
        \cup {<<73, 73, 42, 0>> \o Zeros(8)}

\* --- TIFF and BigTIFF, formats/tiff.rs -----------------------------------
MaxIfd == 3

BytesE(little, v, n) == IF little THEN BytesLE(v, n) ELSE BytesBE(v, n)

\* a field of 4 bytes, or of 8 with the upper half zero
FieldE(little, v, n) ==
    IF n = 4 THEN BytesE(little, v, 4)
    ELSE IF little THEN BytesLE(v, 4) \o Zeros(4) ELSE Zeros(4) \o BytesBE(v, 4)

\* an IFD entry: tag, type, count 1 and the value, left-justified in a field
\* of 4 bytes (8 in BigTIFF)
IfdRecord(little, big, tag, kind, value) ==
    LET cw == IF big THEN 8 ELSE 4
        vw == IF kind \in {3, 8} THEN 2 ELSE 4
    IN  BytesE(little, tag, 2) \o BytesE(little, kind, 2) \o FieldE(little, 1, cw)
            \o BytesE(little, value, vw) \o Zeros(cw - vw)

\* <<tag, type, value>>: the example's width and height as SHORT, a width
\* and a height as LONG, a compression tag, a width as BYTE, and entries of
\* the type codes 0, 14 and 19 and of the BigTIFF type 16
IfdFields ==
    {<<256, 3, 1419>>, <<257, 3, 1001>>, <<256, 4, 70000>>, <<257, 4, 256>>,
     <<259, 3, 1>>, <<256, 1, 7>>, <<256, 0, 5>>, <<273, 16, 8>>}

IfdRare == {<<257, 14, 5>>, <<305, 19, 5>>, <<257, 17, 5>>, <<300, 15, 5>>}

\* the entries fs, one after the other
IfdBytes(little, big, fs) ==
    Flatten([i \in 1..Len(fs) |-> IfdRecord(little, big, fs[i][1], fs[i][2], fs[i][3])])

\* the file of the entries fs, whose IFD declares extra entries more
BigTiffFile(little, big, fs, extra) ==
    BytesE(little, IF little THEN 18761 ELSE 19789, 2)
        \o (IF big THEN BytesE(little, 43, 2) \o BytesE(little, 8, 2) \o BytesE(little, 0, 2)
                            \o FieldE(little, 16, 8) \o FieldE(little, Len(fs) + extra, 8)
            ELSE BytesE(little, 42, 2) \o BytesE(little, 8, 4)
                     \o BytesE(little, Len(fs) + extra, 2))
        \o IfdBytes(little, big, fs)

\* the files of up to MaxIfd entries; the pair followed by an entry of a rare
\* type code or preceded by one; the cuts of a file of three entries; headers
\* that are not accepted
IfdInputs ==
    UNION {{BigTiffFile(little, big, fs, 0) : fs \in SeqsUpTo(IfdFields, MaxIfd)}
             \cup {BigTiffFile(little, big, <<<<256, 3, 1419>>, <<257, 3, 1001>>, f>>, extra)
                       : f \in IfdRare, extra \in {0, 1}}
             \cup {BigTiffFile(little, big, <<f, <<256, 3, 1419>>, <<257, 3, 1001>>>>, 0)
                       : f \in IfdRare}
             \cup Cuts(BigTiffFile(little, big, <<<<257, 4, 256>>, <<256, 3, 1419>>,
                                                  <<259, 3, 1>>>>, 1))
           : little \in BOOLEAN, big \in BOOLEAN}
        \cup {<<73, 73, 44, 0>> \o Zeros(8), <<73, 77, 42, 0>> \o Zeros(8),
              <<73, 73, 42, 0>> \o Zeros(8), <<73, 73, 43, 0, 4, 0, 0, 0>> \o Zeros(8),
              <<73, 73, 43, 0, 8, 0, 1, 0>> \o Zeros(8),
              <<73, 73, 43, 0, 8, 0, 0, 0>> \o Zeros(4) \o <<1, 0, 0, 0>>}

\* --- EXR ----------------------------------------------------------------
MaxAttrs == 2

S_dataWindow == <<100, 97, 116, 97, 87, 105, 110, 100, 111, 119>>
S_box2i == <<98, 111, 120, 50, 105>>
S_channels == <<99, 104, 97, 110, 110, 101, 108, 115>>
S_chlist == <<99, 104, 108, 105, 115, 116>>

\* an attribute: name, type, little-endian size, value
Attr(name, type, size, value) == name \o <<0>> \o type \o <<0>> \o BytesLE(size, 4) \o value

\* a box2i: x_min, y_min, x_max, y_max as little-endian i32
Box2i(x_min, y_min, x_max, y_max) == Flatten(<<x_min, y_min, x_max, y_max>>)

I32Zero == <<0, 0, 0, 0>>
I32MinusOne == <<255, 255, 255, 255>>
I32Max == <<255, 255, 255, 127>>
I32Min == <<0, 0, 0, 128>>

\* the attributes the inputs draw from: data windows 640x480, -1..0 and
\* i32::MAX - i32::MIN; a dataWindow whose declared size is below the 16
\* bytes of a box2i; other attributes, one with a name that is not UTF-8;
\* the empty name that ends the header
ExrAttrs ==
    {Attr(S_dataWindow, S_box2i, 16, Box2i(I32Zero, I32Zero, BytesLE(639, 4), BytesLE(479, 4))),
     Attr(S_dataWindow, S_box2i, 16, Box2i(I32MinusOne, I32MinusOne, I32Zero, I32Zero)),
     Attr(S_dataWindow, S_box2i, 16, Box2i(I32Min, I32Zero, I32Max, I32Max)),
     Attr(S_dataWindow, S_box2i, 16, Box2i(I32MinusOne, I32Zero, I32Max, I32Zero)),
     Attr(S_dataWindow, S_box2i, 0, <<>>),
     Attr(S_dataWindow, S_box2i, 8, Zeros(8)),
     Attr(S_dataWindow, S_box2i, 20, Zeros(4)),
     Attr(S_dataWindow, S_chlist, 2, <<7, 7>>),
     Attr(S_channels, S_chlist, 3, <<82, 0, 0>>),
     Attr(S_channels, S_chlist, 1000, <<>>),
     Attr(<<255, 65>>, S_chlist, 0, <<>>),
     <<0>>}

ExrFile(attrs) == <<118, 47, 49, 1, 2, 0, 0, 0>> \o Flatten(attrs)

ExrInputs ==
    {ExrFile(as) : as \in SeqsUpTo(ExrAttrs, MaxAttrs)}
        \cup Cuts(ExrFile(<<Attr(S_channels, S_chlist, 3, <<82, 0, 0>>),
                            Attr(S_dataWindow, S_box2i, 16,
                                 Box2i(I32Zero, I32Zero, BytesLE(639, 4), BytesLE(479, 4)))>>))
        \cup {<<118, 47, 49, 0, 2, 0, 0, 0, 0>>}

\* --- ILBM ---------------------------------------------------------------
MaxChunks == 3

\* a chunk: id, the four bytes of the big-endian length, the data
Chunk(id, len4, chunk_data) == id \o len4 \o chunk_data

\* BMHD 320x200, BODY, chunks of even and odd length (the odd one padded), a
\* chunk longer than the stream, a chunk of length 0xFFFFFFFF
IlbmChunks ==
    {Chunk(T_BMHD, BytesBE(20, 4), BytesBE(320, 2) \o BytesBE(200, 2) \o Zeros(16)),
     Chunk(T_BODY, BytesBE(0, 4), <<>>),
     Chunk(T_ANNO, BytesBE(0, 4), <<>>),
     Chunk(T_ANNO, BytesBE(2, 4), <<7, 7>>),
     Chunk(T_ANNO, BytesBE(3, 4), <<7, 7, 7, 0>>),
     Chunk(T_ANNO, BytesBE(1000, 4), <<>>),
     Chunk(T_ANNO, <<255, 255, 255, 255>>, <<>>)}

IlbmFile(chunks) == T_FORM \o BytesBE(4 + Len(Flatten(chunks)), 4) \o T_ILBM \o Flatten(chunks)

IlbmInputs ==
    {IlbmFile(cs) : cs \in SeqsUpTo(IlbmChunks, MaxChunks)}
        \cup Cuts(IlbmFile(<<Chunk(T_ANNO, BytesBE(2, 4), <<7, 7>>),
                             Chunk(T_BMHD, BytesBE(20, 4),
                                   BytesBE(320, 2) \o BytesBE(200, 2) \o Zeros(16))>>))

\* --- ICO ----------------------------------------------------------------
MaxImages == 2

\* the width and height bytes of a directory entry: 0 stands for 256
IcoBytes == {0, 1, 16, 255}

IcoDirEntry(w, h) == <<w, h>> \o Zeros(14)

\* reserved, type 1, the count, the directory
IcoFile(count, entries) == <<0, 0, 1, 0>> \o BytesLE(count, 2) \o Flatten(entries)

IcoEntries == {IcoDirEntry(w, h) : w \in IcoBytes, h \in IcoBytes}

\* three images of distinct areas, in each of the six orders
IcoTriples ==
    {<<IcoDirEntry(a[1], a[2]), IcoDirEntry(b[1], b[2]), IcoDirEntry(c[1], c[2])>> :
        a \in {<<16, 16>>, <<48, 48>>, <<0, 255>>},
        b \in {<<16, 16>>, <<48, 48>>, <<0, 255>>},
        c \in {<<16, 16>>, <<48, 48>>, <<0, 255>>}}

IcoInputs ==
    {IcoFile(Len(es), es) : es \in SeqsUpTo(IcoEntries, MaxImages) \cup IcoTriples}
        \cup Cuts(IcoFile(2, <<IcoDirEntry(16, 16), IcoDirEntry(48, 48)>>))

\* --- headers for the dispatchers -----------------------------------------
\* bytes 0..4, 4..8 and 8..12 of a header: the signatures of the formats and
\* words that are no signature
Words0 ==
    {<<255, 216, 255, 224>>, <<137, 80, 78, 71>>, <<71, 73, 70, 56>>,
     <<73, 73, 42, 0>>, <<77, 77, 0, 42>>, <<73, 73, 43, 0>>, T_RIFF,
     <<0, 0, 0, 24>>, <<255, 10, 0, 0>>, <<0, 0, 0, 12>>, <<66, 77, 0, 0>>,
     <<56, 66, 80, 83>>, <<0, 0, 1, 0>>, <<19, 171, 160, 92>>, <<52, 0, 0, 0>>,
     <<80, 86, 82, 3>>, <<80, 75, 77, 32>>, <<118, 47, 49, 1>>, <<35, 63, 82, 65>>,
     <<35, 63, 82, 71>>, <<68, 68, 83, 32>>, <<171, 75, 84, 88>>,
     <<113, 111, 105, 102>>, <<102, 97, 114, 98>>, <<80, 54, 10, 49>>, <<80, 55, 10, 49>>,
     <<80, 0, 2, 0>>, <<86, 84, 70, 0>>, T_FORM, <<0, 0, 2, 0>>, <<0, 1, 9, 0>>,
     <<0, 2, 2, 0>>, <<1, 2, 4, 8>>}

Words1 ==
    {<<0, 0, 0, 0>>, T_ftyp, <<74, 88, 76, 32>>, <<49, 48, 0, 0>>, <<50, 48, 22, 8>>,
     <<50, 48, 140, 146>>, <<50, 48, 0, 1>>, <<51, 48, 0, 0>>, <<224, 165, 0, 0>>,
     <<32, 50, 48, 187>>, <<102, 101, 108, 100>>, <<68, 73, 65, 78>>, <<66, 69, 10, 0>>,
     <<49, 48, 140, 147>>, <<50, 48, 135, 238>>, <<49, 48, 22, 11>>, <<50, 48, 22, 12>>,
     <<50, 48, 22, 7>>}

Words2 ==
    {<<0, 0, 0, 0>>, T_WEBP, T_heic, T_avif, T_mif1, <<106, 112, 101, 103>>,
     <<120, 120, 120, 120>>, <<13, 10, 135, 10>>, <<13, 10, 26, 10>>, T_ILBM,
     <<80, 66, 77, 32>>, <<67, 69, 10, 0>>}

Headers == {a \o b \o c : a \in Words0, b \in Words1, c \in Words2}

\* what follows the header where the dispatcher reads on: the compatible
\* brands of a structural HEIF brand, the pixel format of a DDS or PVR file
TailsOf(h) ==
    IF Slice(h, 4, 12) = T_ftyp \o T_mif1
    THEN {<<>>, Zeros(4), Zeros(4) \o T_avif \o T_mif1, Zeros(4) \o T_mif1 \o T_heic,
          Zeros(4) \o T_mif1 \o T_mif1, Zeros(4) \o <<105, 115, 111, 56>> \o T_heic,
          Zeros(4) \o <<105, 115, 111, 56>> \o T_mif1, Zeros(4) \o T_heic \o T_avif}
    ELSE IF Slice(h, 0, 8) = <<68, 68, 83, 32, 0, 0, 0, 0>>
    THEN {<<>>, Zeros(72) \o <<68, 88, 84, 49>>, Zeros(72) \o <<68, 88, 49, 48>>,
          Zeros(72) \o <<68, 88, 49, 48>> \o Zeros(40) \o <<98, 0, 0, 0>>,
          Zeros(76) \o <<32, 0, 0, 0>>, Zeros(76), Zeros(70)}
    ELSE IF Slice(h, 0, 8) = <<80, 86, 82, 3, 0, 0, 0, 0>>
    THEN {<<>>, Zeros(4), <<0, 0, 0, 1>>}
    ELSE {<<>>}

DispatchInputs == UNION {{h \o t : t \in TailsOf(h)} : h \in Headers}

\* inputs shorter than the 12-byte header
ShortInputs ==
    {SubSeq(a \o b \o c, 1, k) :
        a \in Words0, b \in {<<0, 0, 0, 0>>, T_ftyp}, c \in {T_WEBP}, k \in 0..11}

\* --- windows for the predicates called on their own ----------------------
\* a header of each format, cut to every length from 0 to 12
MatchHeaders ==
    {<<0, 1, 9, 0>> \o Zeros(8), <<80, 54, 10, 49>> \o Zeros(8), <<73, 73, 42, 0>> \o Zeros(8),
     <<73, 73, 7, 0>> \o Zeros(8), <<77, 77, 0, 43>> \o Zeros(8),
     <<71, 73, 70, 56, 57, 97>> \o Zeros(6), <<19, 171, 160, 92>> \o Zeros(8),
     <<80, 75, 77, 32, 50, 48, 140, 146>> \o Zeros(4),
     <<80, 75, 77, 32, 49, 48, 22, 8>> \o Zeros(4), <<80, 75, 77, 32, 50, 48, 0, 1>> \o Zeros(4),
     <<52, 0, 0, 0>> \o Zeros(8), <<80, 86, 82, 3>> \o Zeros(8),
     <<118, 47, 49, 1>> \o Zeros(8), <<35, 63, 82, 71, 66, 69, 10>> \o Zeros(5),
     <<68, 68, 83, 32>> \o Zeros(8),
     <<171, 75, 84, 88, 32, 50, 48, 187, 13, 10, 26, 10>>,
     T_FORM \o Zeros(4) \o T_ILBM, <<0, 0, 0, 24>> \o T_ftyp \o T_heic}

MatchWindows == {SubSeq(h, 1, k) : h \in MatchHeaders, k \in 0..12}

\* --- sizes to compare ---------------------------------------------------
MaxSide == 3

CmpInputs == {<<aw, ah, bw, bh>> : aw \in 0..MaxSide, ah \in 0..MaxSide,
                                   bw \in 0..MaxSide, bh \in 0..MaxSide}

\* --- every run: an entry point and its input ----------------------------
Inputs ==
    ({"image_type", "lib_image_type"} \X (DispatchInputs \cup ShortInputs))
        \cup ({"blob_size"} \X (ShortInputs \cup FixedInputs \cup JpegInputs
                                    \cup JxlInputs \cup TiffInputs \cup HeifPre \cup HeifCut))
        \cup ({"heif_size"} \X HeifInputs)
        \cup ({"exr_size"} \X ExrInputs)
        \cup ({"ilbm_size"} \X IlbmInputs)
        \cup ({"ico_size"} \X IcoInputs)
        \cup ({"pkm_size"} \X ({MakePkm(w, h) : w \in Dims16, h \in Dims16}
                                  \cup Cuts(MakePkm(256, 1))))
        \cup ({"dds_size"} \X ({MakeDds(w, h) : w \in Dims32, h \in Dims32}
                                  \cup Cuts(MakeDds(256, 1))))
        \cup ({"tga_size"} \X ({MakeTga(w, h) : w \in Dims16, h \in Dims16}
                                  \cup Cuts(MakeTga(256, 1))))
        \cup ({"cmp"} \X CmpInputs)
        \cup ({"tiff_size"} \X IfdInputs)
        \cup ({"jxl_size"} \X (JxlFieldInputs \cup JxlpInputs \cup JxlCutInputs))
        \cup ({"read_bits"} \X ReadBitsInputs)
        \cup (MatchEntries \X MatchWindows)

---------------------------------------------------------------------------
(* The state machine: a run is one call.                                   *)

Init ==
    /\ \E in \in Inputs : entry = in[1] /\ data = in[2]
    /\ pos = 0
    /\ pc = "start"
    /\ loc = NoLoc
    /\ res = NoRes

\* the step to the control point, position, locals and outcome of next
Step(next) ==
    /\ pc' = next.pc
    /\ pos' = next.pos
    /\ loc' = next.loc
    /\ res' = next.res
    /\ UNCHANGED <<entry, data>>

\* the entry point is called
Call == pc = "start" /\ Step(Begin(entry, data))

JpegStep == pc = "jpeg" /\ Step(JpegMarker(data, pos, loc))

HeifSkipStep ==
    /\ pc \in {"skip_meta", "skip_iprp", "skip_ipco"}
    /\ Step(HeifSkipToTag(pc, data, pos, loc))

HeifIpcoStep == pc = "ipco" /\ Step(HeifIpco(data, pos, loc))

JxlBoxStep == pc = "jxl_box" /\ Step(JxlBox(data, pos, loc))

TiffStep == pc = "tiff" /\ Step(TiffEntry(data, pos, loc))

\* checks: the build has overflow checks (debug) or wraps (release)
IlbmStep == pc = "ilbm" /\ \E checks \in BOOLEAN : Step(IlbmChunk(data, pos, loc, checks))

ExrStep == pc = "exr" /\ \E checks \in BOOLEAN : Step(ExrAttr(data, pos, loc, checks))

IcoStep == pc = "ico" /\ Step(IcoEntry(data, pos, loc))

IfdStep == pc = "ifd" /\ Step(IfdEntry(data, pos, loc))

\* checks: the build has overflow checks (debug) or wraps (release)
ReadBitsStep == pc = "read_bits" /\ \E checks \in BOOLEAN : Step(read_bits_call(data, checks))

Next ==
    \/ Call
    \/ JpegStep
    \/ HeifSkipStep
    \/ HeifIpcoStep
    \/ JxlBoxStep
    \/ TiffStep
    \/ IlbmStep
    \/ ExrStep
    \/ IcoStep
    \/ IfdStep
    \/ ReadBitsStep

Spec == Init /\ [][Next]_vars


---------------------------------------------------------------------------
(* Properties.                                                             *)

Done == pc = "done"
Header == Slice(data, 0, 12)
IoErrors == {"UnexpectedEof", "InvalidData"}
IsIoError(r) == r.kind = "err" /\ r.err \in IoErrors
Area(wh) == wh[1] * wh[2]

\* C1: for every input every entry point returns a value or a typed error;
\* no call ends in a panic.
C1_NoPanic == Done => res.kind \in {"size", "type", "ord", "bits", "bool", "err"}

LoopPoints ==
    {"jpeg", "skip_meta", "skip_iprp", "skip_ipco", "ipco", "jxl_box", "ilbm", "exr", "tiff", "ico",
     "ifd"}

\* what the pass of the loop that stands at the current control point can
\* lead to (both builds, where overflow decides)
PassOutcomes ==
    CASE pc = "jpeg" -> {JpegMarker(data, pos, loc)}
      [] pc \in {"skip_meta", "skip_iprp", "skip_ipco"} -> {HeifSkipToTag(pc, data, pos, loc)}
      [] pc = "ipco" -> {HeifIpco(data, pos, loc)}
      [] pc = "jxl_box" -> {JxlBox(data, pos, loc)}
      [] pc = "tiff" -> {TiffEntry(data, pos, loc)}
      [] pc = "ilbm" -> {IlbmChunk(data, pos, loc, checks) : checks \in BOOLEAN}
      [] pc = "exr" -> {ExrAttr(data, pos, loc, checks) : checks \in BOOLEAN}
      [] pc = "ico" -> {IcoEntry(data, pos, loc)}
      [] pc = "ifd" -> {IfdEntry(data, pos, loc)}
      [] OTHER -> {}

\* C2: every pass of a parser's loop strictly advances the read position or
\* ends the loop, and a pass that starts at or past the end of the input
\* ends the loop: a call makes at most Len(data) + 1 passes, whatever the
\* length fields are.
C2_LoopsAdvance ==
    pc \in LoopPoints =>
        \A next \in PassOutcomes :
            /\ next.pc = "done" \/ next.pos > pos
            /\ pos >= Len(data) => next.pc = "done"

\* a JPEG scan stands where a segment length of 0 or 1 sent it: behind the
\* length field it has just read
C2_Witness ==
    /\ pc = "jpeg" /\ pos >= 4 /\ CanRead(data, pos, 2)
    /\ \E p \in {pos - 2, pos - 3} :
          data[p + 1] = 255 /\ U16BE(data, p + 2) < 2 /\ pos = p + 2 + U16BE(data, p + 2)

\* the length of the signature that image_type(header) of lib.rs tests for
\* a tag
SignatureLen(tag) ==
    CASE tag \in {"Bmp", "Jxl"} -> 2
      [] tag = "Jpeg" -> 3
      [] tag \in {"Png", "Gif", "Tiff", "Psd"} -> 4
      [] tag = "Heif" -> 8
      [] tag = "Webp" -> 12

ClaimedOrder ==
    <<"Jpeg", "Png", "Gif", "Tiff", "Webp", "Heif", "Jxl", "Bmp", "Psd", "Ico",
      "Aseprite", "Astc", "Atc", "Pvrtc", "Eac", "Etc2", "Exr", "Hdr", "Dds", "Ktx2",
      "Qoi", "Farbfeld", "Pnm", "Vtf", "Ilbm", "Tga">>

\* does the predicate of the format tag hold of header h (and reader d)?
Holds(tag, h, d) ==
    CASE tag = "Jpeg" -> jpeg_matches(h)
      [] tag = "Png" -> png_matches(h)
      [] tag = "Gif" -> gif_matches(h)
      [] tag = "Tiff" -> tiff_matches(h)
      [] tag = "Webp" -> webp_matches(h)
      [] tag = "Heif" -> heif_matches(h, d) # "None"
      [] tag = "Jxl" -> jxl_matches(h)
      [] tag = "Bmp" -> bmp_matches(h)
      [] tag = "Psd" -> psd_matches(h)
      [] tag = "Ico" -> ico_matches(h)
      [] tag = "Aseprite" -> aseprite_matches(h)
      [] tag = "Astc" -> astc_matches(h)
      [] tag = "Atc" -> atc_matches(h)
      [] tag = "Pvrtc" -> pvrtc_matches(h)
      [] tag = "Eac" -> pkm_matches_eac(h)
      [] tag = "Etc2" -> pkm_matches(h)
      [] tag = "Exr" -> exr_matches(h)
      [] tag = "Hdr" -> hdr_matches(h)
      [] tag = "Dds" -> dds_matches(h)
      [] tag = "Ktx2" -> ktx2_matches(h)
      [] tag = "Qoi" -> qoi_matches(h)
      [] tag = "Farbfeld" -> farbfeld_matches(h)
      [] tag = "Pnm" -> pnm_matches(h)
      [] tag = "Vtf" -> vtf_matches(h)
      [] tag = "Ilbm" -> ilbm_matches(h)
      [] tag = "Tga" -> tga_matches(h)

\* the places in ClaimedOrder of the predicates that hold
Hits(h, d) == {i \in 1..Len(ClaimedOrder) : Holds(ClaimedOrder[i], h, d)}

\* C4: formats::image_type returns the tag of the first predicate, in the
\* order JPEG ... TGA, that holds of the header, and NotSupported exactly
\* when none holds.
C4_FirstMatchWins ==
    (Done /\ entry = "image_type" /\ Len(data) >= 12) =>
        LET hits == Hits(Header, data) IN
        IF hits = {} THEN res = Err("NotSupported")
        ELSE /\ res.kind = "type"
             /\ res.tag = ClaimedOrder[CHOOSE i \in hits : \A j \in hits : i <= j]

\* a PKM header of an EAC data type, which the EAC and the ETC2 predicate
\* (and the PNM one) hold of, was classified
C4_Witness ==
    /\ Done /\ entry = "image_type" /\ Len(data) >= 12
    /\ pkm_matches_eac(Header) /\ pkm_matches(Header) /\ res.tag = "Eac"

\* the tests of lib.rs' image_type on a 12-byte header
LibJpeg(h) == Slice(h, 0, 3) = <<255, 216, 255>>
LibPng(h) == Slice(h, 0, 4) = <<137, 80, 78, 71>>
LibGif(h) == Slice(h, 0, 4) = <<71, 73, 70, 56>>
LibTiff(h) == Slice(h, 0, 4) \in {<<73, 73, 42, 0>>, <<77, 77, 0, 42>>}
LibWebp(h) == Slice(h, 0, 4) = T_RIFF /\ Slice(h, 8, 12) = T_WEBP
LibHeif(h) == Slice(h, 4, 8) = T_ftyp

\* C5: of a 12-byte header more than one predicate holds of, the priority
\* is: JPEG, PNG, GIF, TIFF, WEBP are never classified HEIF; HEIF is never
\* classified JPEG-XL; a PKM header of an EAC data type is never classified
\* ETC2; TGA is the class only when no other predicate holds.  Each
\* dispatcher is held to its own predicates.
C5_Priority ==
    (Done /\ entry \in {"image_type", "lib_image_type"} /\ Len(data) >= 12
          /\ res.kind = "type") =>
        IF entry = "image_type"
        THEN /\ (\/ jpeg_matches(Header) \/ png_matches(Header) \/ gif_matches(Header)
                 \/ tiff_matches(Header) \/ webp_matches(Header)) => res.tag # "Heif"
             /\ heif_matches(Header, data) # "None" => res.tag # "Jxl"
             /\ pkm_matches_eac(Header) => res.tag # "Etc2"
             /\ res.tag = "Tga" => Hits(Header, data) = {Len(ClaimedOrder)}
        ELSE /\ (\/ LibJpeg(Header) \/ LibPng(Header) \/ LibGif(Header)
                 \/ LibTiff(Header) \/ LibWebp(Header)) => res.tag # "Heif"
             /\ LibHeif(Header) => res.tag # "Jxl"

\* C6: a header built with W and H at the format's offsets, in its byte
\* order, parses back to {W, H}: PNG, GIF, BMP, PSD through blob_size, PKM,
\* DDS, TGA through the module's size, each recognised by the dispatcher.
C6_RoundTrip ==
    Done =>
        /\ entry = "blob_size" =>
              /\ \A w \in Dims32, h \in Dims32 :
                    /\ data = MakePng(w, h) => res = OkSize(w, h)
                    /\ data = MakeBmp(w, h) => res = OkSize(w, h)
                    /\ data = MakePsd(w, h) => res = OkSize(w, h)
              /\ \A w \in Dims16, h \in Dims16 :
                    data = MakeGif(w, h) => res = OkSize(w, h)
        /\ entry = "pkm_size" =>
              \A w \in Dims16, h \in Dims16 :
                  data = MakePkm(w, h) =>
                      res = OkSize(w, h) /\ image_type(data).tag = "Etc2"
        /\ entry = "dds_size" =>
              \A w \in Dims32, h \in Dims32 :
                  data = MakeDds(w, h) =>
                      res = OkSize(w, h) /\ image_type(data).tag = "Dds"
        /\ entry = "tga_size" =>
              \A w \in Dims16, h \in Dims16 :
                  data = MakeTga(w, h) =>
                      res = OkSize(w, h) /\ image_type(data).tag = "Tga"

\* a PSD header, which stores the height first, was parsed by blob_size
C6_Witness ==
    Done /\ entry = "blob_size" /\ data = MakePsd(256, 65536) /\ res = OkSize(256, 65536)


\* --- C7: the files cut before their dimensions are read ------------------
\* a HEIF file of two images, cut inside ipco (which starts at 40) before
\* the ispe of the larger one (the first at 40..60, the second at 60..80) is
\* read whole
HeifCutBeforeLargest ==
    UNION {LET a == ab[1]
               b == ab[2]
               f == HeifFile(T_heic, <<>>, <<Ispe(a[1], a[2]), Ispe(b[1], b[2])>>)
               end == IF Area(a) > Area(b) THEN 60 ELSE 80
           IN  {SubSeq(f, 1, k) : k \in 40..(end - 1)}
           : ab \in {x \in IspeDims \X IspeDims : Area(x[1]) # Area(x[2])}}

\* the byte of the codestream header cs that holds its last dimension bit
LastDimByte(cs) == IF Len(cs) = 12 THEN 10 ELSE 3

\* a boxed JPEG-XL file (signature 12, box header 8) cut before the last
\* dimension bit
JxlCutBeforeDims ==
    UNION {{SubSeq(JxlFile(<<Jxlc(8 + Len(cs), cs)>>), 1, k) : k \in 0..(20 + LastDimByte(cs))}
           : cs \in Codestreams}

\* a raw JPEG-XL codestream cut before the last dimension bit
JxlRawCut == UNION {{SubSeq(cs, 1, k) : k \in 0..LastDimByte(cs)} : cs \in Codestreams}

\* a TIFF of three records (10..22, 22..34, 34..46: width, height last), cut
\* inside the IFD before the height is read
TiffCutInIfd ==
    UNION {LET f == TiffFile(little, <<TiffRecord(little, 259, 1, 4, 1),
                                       TiffRecord(little, 256, 4, 1, 640),
                                       TiffRecord(little, 257, 4, 1, 480)>>)
           IN  {SubSeq(f, 1, k) : k \in 10..45}
           : little \in BOOLEAN}

\* a WEBP file cut after the 16 bytes up to its chunk tag; the dimensions
\* are the last bytes of each file
WebpCutAfterTag ==
    UNION {{SubSeq(f, 1, k) : k \in 16..(Len(f) - 1)} : f \in {g \in WebpFiles : g[16] # 65}}

\* C7: size of a file cut before its dimensions are read is an I/O error,
\* never a size.
C7_CutIsIoError ==
    (/\ Done
     /\ \/ entry \in {"heif_size", "blob_size"} /\ data \in HeifCutBeforeLargest
        \/ entry = "blob_size"
             /\ data \in JxlCutBeforeDims \cup JxlRawCut \cup TiffCutInIfd \cup WebpCutAfterTag)
        => IsIoError(res)

\* C8: a < b exactly when a.width * a.height < b.width * b.height.
C8_AreaOrder ==
    (Done /\ entry = "cmp") =>
        (res.tag = "Less" <=> data[1] * data[2] < data[3] * data[4])

\* --- C9: several images in one file ---------------------------------------
\* do the sizes of the list ims have distinct areas?
DistinctAreas(ims) == \A i, j \in 1..Len(ims) : i # j => Area(ims[i]) # Area(ims[j])

\* the size in ims of the largest area
Largest(ims) ==
    LET m == CHOOSE i \in 1..Len(ims) : \A j \in 1..Len(ims) : Area(ims[j]) <= Area(ims[i])
    IN  OkSize(ims[m][1], ims[m][2])

HeifImageLists == {ims \in SeqsUpTo(IspeDims, MaxChildren) : ims # <<>> /\ DistinctAreas(ims)}

IcoImageLists ==
    {ims \in SeqsUpTo(IcoBytes \X IcoBytes, MaxImages)
              \cup {<<a, b, c>> : a \in {<<16, 16>>, <<48, 48>>, <<0, 255>>},
                                  b \in {<<16, 16>>, <<48, 48>>, <<0, 255>>},
                                  c \in {<<16, 16>>, <<48, 48>>, <<0, 255>>}} :
        /\ ims # <<>>
        /\ DistinctAreas([i \in 1..Len(ims) |-> <<IcoDim(ims[i][1]), IcoDim(ims[i][2])>>])}

\* C9: of a HEIF or ICO file of N images of distinct areas, in any order,
\* the size reported is the one of the largest area.
C9_LargestArea ==
    Done =>
        /\ entry = "heif_size" =>
              \A ims \in HeifImageLists :
                  data = HeifFile(T_heic, <<>>, [i \in 1..Len(ims) |-> Ispe(ims[i][1], ims[i][2])])
                      => res = Largest(ims)
        /\ entry = "ico_size" =>
              \A ims \in IcoImageLists :
                  data = IcoFile(Len(ims), [i \in 1..Len(ims) |-> IcoDirEntry(ims[i][1], ims[i][2])])
                      => res = Largest([i \in 1..Len(ims) |->
                                           <<IcoDim(ims[i][1]), IcoDim(ims[i][2])>>])

\* C10: a HEIF file of one ispe = (W, H) yields {H, W} with irot 1 or 3, and
\* {W, H} with irot 0 or 2 or without an irot box.
C10_Rotation ==
    (Done /\ entry = "heif_size") =>
        \A wh \in IspeDims :
            /\ data = HeifFile(T_heic, <<>>, <<Ispe(wh[1], wh[2])>>)
                  => res = OkSize(wh[1], wh[2])
            /\ \A r \in 0..3 :
                  (\/ data = HeifFile(T_heic, <<>>, <<Ispe(wh[1], wh[2]), Irot(r)>>)
                   \/ data = HeifFile(T_heic, <<>>, <<Irot(r), Ispe(wh[1], wh[2])>>))
                      => res = IF r \in {1, 3} THEN OkSize(wh[2], wh[1])
                               ELSE OkSize(wh[1], wh[2])


\* C7, the part that holds: a raw JPEG-XL codestream, a TIFF and a WEBP file
\* cut before their dimensions yield an I/O error.
C7_RawJxlTiffWebp ==
    (Done /\ entry = "blob_size" /\ data \in JxlRawCut \cup TiffCutInIfd \cup WebpCutAfterTag)
        => IsIoError(res)

\* C9, the part that holds: when the largest area is not zero the size
\* reported is the one of the largest area.
C9_PositiveAreas ==
    Done =>
        /\ entry = "heif_size" =>
              \A ims \in HeifImageLists :
                  (/\ Largest(ims).width * Largest(ims).height > 0
                   /\ data = HeifFile(T_heic, <<>>,
                                      [i \in 1..Len(ims) |-> Ispe(ims[i][1], ims[i][2])]))
                      => res = Largest(ims)
        /\ entry = "ico_size" =>
              \A ims \in IcoImageLists :
                  data = IcoFile(Len(ims), [i \in 1..Len(ims) |-> IcoDirEntry(ims[i][1], ims[i][2])])
                      => res = Largest([i \in 1..Len(ims) |->
                                           <<IcoDim(ims[i][1]), IcoDim(ims[i][2])>>])

\* C10, the part that holds: for W * H > 0 the rotation swaps or keeps the
\* sides as claimed.
C10_PositiveDims ==
    (Done /\ entry = "heif_size") =>
        \A wh \in {x \in IspeDims : Area(x) > 0} :
            /\ data = HeifFile(T_heic, <<>>, <<Ispe(wh[1], wh[2])>>)
                  => res = OkSize(wh[1], wh[2])
            /\ \A r \in 0..3 :
                  (\/ data = HeifFile(T_heic, <<>>, <<Ispe(wh[1], wh[2]), Irot(r)>>)
                   \/ data = HeifFile(T_heic, <<>>, <<Irot(r), Ispe(wh[1], wh[2])>>))
                      => res = IF r \in {1, 3} THEN OkSize(wh[2], wh[1])
                               ELSE OkSize(wh[1], wh[2])


\* C11: a JPEG with an embedded thumbnail stream (nested SOI, the
\* thumbnail's SOF, EOI) ahead of the outer SOF reports the outer image's
\* dimensions.
C11_OuterDims ==
    (Done /\ entry = "blob_size") =>
        \A lengths \in BOOLEAN, t \in ThumbDims, o \in OuterDims :
            data = JpegThumb(lengths, t, o) => res = OkSize(o[2], o[1])

\* C11, the part that holds: when SOI and EOI are each followed by a length
\* of 2 the outer dimensions are reported, and a scan that stands at a
\* start-of-frame marker at a depth other than 0 does not return a size.
C11_SofOnlyAtDepth0 ==
    /\ (Done /\ entry = "blob_size") =>
          \A t \in ThumbDims, o \in OuterDims :
              data = JpegThumb(TRUE, t, o) => res = OkSize(o[2], o[1])
    /\ (pc = "jpeg" /\ loc.depth # 0) => JpegMarker(data, pos, loc).res.kind # "size"

\* C18: in the JPEG marker scan a marker whose first byte is not 0xFF, and
\* an end-of-image marker met at depth 0, each end the call with
\* CorruptedImage.
C18_JpegCorrupted ==
    (pc = "jpeg" /\ CanRead(data, pos, 2)) =>
        /\ data[pos + 1] # 255 => JpegMarker(data, pos, loc).res = Err("CorruptedImage")
        /\ (data[pos + 1] = 255 /\ data[pos + 2] = 217 /\ loc.depth = 0)
              => JpegMarker(data, pos, loc).res = Err("CorruptedImage")

\* the scan stands at an end-of-image marker at depth 0, behind a segment
C18_Witness ==
    /\ pc = "jpeg" /\ pos > 2 /\ CanRead(data, pos, 2)
    /\ data[pos + 1] = 255 /\ data[pos + 2] = 217 /\ loc.depth = 0


\* C12: a VP8X file that stores w and h (24 bits, little-endian, at 0x18 and
\* 0x1B) yields {w + 1, h + 1}; a VP8L file whose word at 0x15 holds w in
\* its low 14 bits and h in the next 14 yields {w + 1, h + 1}; the bytes
\* 0F 00 00 and 1F 00 00 of VP8X give {16, 32}.
C12_WebpOffByOne ==
    (Done /\ entry = "blob_size") =>
        /\ \A w \in Dims24, h \in Dims24 :
              data = MakeVp8x(w, h) => res = OkSize(w + 1, h + 1)
        /\ \A w \in Dims14, h \in Dims14, high \in Vp8lHigh :
              data = MakeVp8l(w, h, high) => res = OkSize(w + 1, h + 1)
        /\ (/\ Len(data) >= 30
            /\ Slice(data, 0, 16) = T_RIFF \o <<255, 0, 0, 0>> \o T_WEBP \o <<86, 80, 56, 88>>
            /\ Slice(data, 24, 30) = <<15, 0, 0, 31, 0, 0>>) => res = OkSize(16, 32)

\* the VP8X file of the stored bytes 0F 00 00 and 1F 00 00 has been sized
C12_Witness ==
    /\ Done /\ entry = "blob_size" /\ data = MakeVp8x(15, 31) /\ res = OkSize(16, 32)

\* a VP8L file whose bits above the fields are set has been sized
C12_WitnessVp8l ==
    /\ Done /\ entry = "blob_size" /\ data = MakeVp8l(16383, 255, 7) /\ res.kind = "size"


\* the containers whose tag carries the inner codec
Containers == {"Atc", "Pvrtc", "Eac", "Etc2", "Dds"}

\* the read of the inner-codec field of container tag fails on input d: the
\* FourCC of DDS at 84, its DXGI format at 128 (FourCC DX10) or its bit count
\* at 88 (no FourCC), the pixel format of PVR v3 at 8; the PKM data type at 6
\* lies within the 12 bytes of the header
FieldUnreadable(tag, d) ==
    CASE tag = "Dds" ->
            \/ Len(d) < 88
            \/ Len(d) < 132 /\ Slice(d, 84, 88) = <<68, 88, 49, 48>>
            \/ Len(d) < 92 /\ Slice(d, 84, 88) = <<0, 0, 0, 0>>
      [] tag = "Pvrtc" -> Slice(d, 0, 4) = <<80, 86, 82, 3>> /\ Len(d) < 16
      [] OTHER -> FALSE

\* C13: a header that a container's predicate is the first to hold of is
\* classified as that container, never an error, and with the sub-tag
\* Unknown when the inner-codec field cannot be read.
C13_UnknownFallback ==
    (Done /\ entry = "image_type" /\ Len(data) >= 12) =>
        LET hits == Hits(Header, data) IN
        (hits # {} /\ ClaimedOrder[CHOOSE i \in hits : \A j \in hits : i <= j] \in Containers) =>
            LET tag == ClaimedOrder[CHOOSE i \in hits : \A j \in hits : i <= j] IN
            /\ res.kind = "type" /\ res.tag = tag
            /\ FieldUnreadable(tag, data) => res.sub = "Unknown"

\* a DDS file of FourCC DX10 that ends before the DXGI format at 128 was
\* classified
C13_Witness ==
    /\ Done /\ entry = "image_type" /\ Len(data) = 88
    /\ dds_matches(Header) /\ Slice(data, 84, 88) = <<68, 88, 49, 48>>
    /\ res = OkType("Dds", "Unknown")


\* the HEIF parser stands at a box whose 8-byte header can be read
AtHeifBox == pc \in {"skip_meta", "skip_iprp", "skip_ipco", "ipco"} /\ CanRead(data, pos, 8)

\* C14: in the HEIF parser every box of a declared size under 8, met while
\* skipping to meta, iprp or ipco or among the children of ipco, ends the
\* call with CorruptedImage.
C14_SmallBoxCorrupted ==
    (AtHeifBox /\ U32BE(data, pos) < 8) =>
        \A next \in PassOutcomes : next.res = Err("CorruptedImage")

\* C14, the part that holds: a child of ipco of a declared size under 8 ends
\* the call with CorruptedImage, and a box of another tag than the one
\* skipped to, of a declared size under 8, ends the call with an error.
C14_SmallBoxIsError ==
    (AtHeifBox /\ U32BE(data, pos) < 8) =>
        \A next \in PassOutcomes :
            /\ pc = "ipco" => next.res = Err("CorruptedImage")
            /\ (pc # "ipco" /\ Slice(data, pos + 4, pos + 8) # HeifTarget(pc))
                  => next.res.kind = "err"


\* the ipco scan ends at the current pass: the next box header cannot be
\* read (end of data), or a box that is neither ispe nor irot has a size
\* that meets or exceeds what is left of ipco (the ipco boundary)
IpcoScanEnds ==
    /\ pc = "ipco"
    /\ \/ ~CanRead(data, pos, 8)
       \/ /\ U32BE(data, pos) >= 8
          /\ Slice(data, pos + 4, pos + 8) \notin {T_ispe, T_irot}
          /\ U32BE(data, pos) >= loc.ipco_size

\* C15: a HEIF file whose ipco scan ends without having seen an ispe box
\* fails with CorruptedImage.
C15_NoIspeCorrupted ==
    (IpcoScanEnds /\ ~loc.found_ispe) =>
        \A next \in PassOutcomes : next.res = Err("CorruptedImage")

\* C15, the part that holds: such a file fails, with the I/O error
\* UnexpectedEof.
C15_NoIspeIsEof ==
    (IpcoScanEnds /\ ~loc.found_ispe) =>
        \A next \in PassOutcomes : next.res = Err("UnexpectedEof")


\* C16: the boxes that follow the end of ipco contribute no width, height
\* or rotation: a file whose ipco holds the one image 2 x 2 yields {2, 2}
\* whatever follows ipco, and one whose ipco holds irot 1 and the image
\* 1 x 10 yields {10, 1}.
C16_BudgetStops ==
    (Done /\ entry = "heif_size") =>
        /\ (\E outside \in SeqsUpTo(HeifChildren, 2) : data = HeifTrail(<<Ispe(2, 2)>>, outside))
              => res = OkSize(2, 2)
        /\ data = HeifTrail(<<Ispe(1, 10), Box(8, T_free, <<>>)>>, <<Ispe(3, 3)>>)
              => res = OkSize(1, 10)
        /\ data = HeifTrail(<<Irot(1), Ispe(1, 10)>>, <<Irot(0)>>) => res = OkSize(10, 1)

\* C16, the part that holds: a child that is neither ispe nor irot and whose
\* declared size meets or exceeds what is left of the budget ends the scan,
\* and a smaller one takes its size off the budget.
C16_OtherBoxStops ==
    (/\ pc = "ipco" /\ CanRead(data, pos, 8) /\ U32BE(data, pos) >= 8
     /\ Slice(data, pos + 4, pos + 8) \notin {T_ispe, T_irot}) =>
        \A next \in PassOutcomes :
            IF U32BE(data, pos) >= loc.ipco_size THEN next.pc = "done"
            ELSE next.pc = "ipco" /\ next.loc.ipco_size = loc.ipco_size - U32BE(data, pos)


\* the brands of an ftyp box: the primary brand at 8, then (behind the
\* version at 12) the compatible brands at 16 and at 20
Primary(d) == Slice(d, 8, 12)
Slot1(d) == Slice(d, 16, 20)
Slot2(d) == Slice(d, 20, 24)
IsCodec(b) == inner_matches(b) # "None"

\* a file was classified HEIF
HeifClassified == Done /\ entry = "image_type" /\ Len(data) >= 12 /\ res.tag = "Heif"

\* C17 as claimed: a codec primary brand gives its codec; behind a
\* structural primary brand the codec of the first codec brand among the
\* two compatible-brand slots is returned, and Unknown only when neither is
\* a codec brand or the slots cannot be read.
C17_Original ==
    HeifClassified =>
        res.sub = IF IsCodec(Primary(data)) THEN inner_matches(Primary(data))
                  ELSE IF Primary(data) \notin StructuralBrands \/ Len(data) < 24 THEN "Unknown"
                  ELSE IF IsCodec(Slot1(data)) THEN inner_matches(Slot1(data))
                  ELSE IF IsCodec(Slot2(data)) THEN inner_matches(Slot2(data))
                  ELSE "Unknown"

\* C17 as amended: behind a structural primary brand the first slot is
\* inspected, and the second slot only when the first holds a structural
\* brand; Unknown is returned in every other case.
C17_Brands ==
    HeifClassified =>
        res.sub = IF IsCodec(Primary(data)) THEN inner_matches(Primary(data))
                  ELSE IF Primary(data) \notin StructuralBrands \/ Len(data) < 24 THEN "Unknown"
                  ELSE IF IsCodec(Slot1(data)) THEN inner_matches(Slot1(data))
                  ELSE IF Slot1(data) \in StructuralBrands /\ IsCodec(Slot2(data))
                       THEN inner_matches(Slot2(data))
                  ELSE "Unknown"

\* a file of the brands mif1, mif1, heic was classified by its second slot
C17_Witness ==
    /\ HeifClassified /\ Len(data) >= 24
    /\ Primary(data) = T_mif1 /\ Slot1(data) = T_mif1 /\ Slot2(data) = T_heic
    /\ res.sub = "Hevc"


---------------------------------------------------------------------------
(* C19, C20: the IFD walk of formats/tiff.rs.                               *)

IfdWidths == {<<256, 3, 1419>>, <<256, 4, 70000>>}
IfdHeights == {<<257, 3, 1001>>, <<257, 4, 256>>}

\* C19: a TIFF or BigTIFF file, in either byte order, whose IFD holds a width
\* entry (tag 0x100) and a height entry (tag 0x101) of type SHORT or LONG, in
\* either order and possibly behind an entry of another tag, yields that
\* width and height whatever follows the second of the two: entries of
\* invalid type codes, the end of the data, or nothing.  This includes the
\* classic little-endian file with 0x100 = 1419 and 0x101 = 1001.
C19_StopsAtPair ==
    entry = "tiff_size" /\ pc = "done" =>
        \A little \in BOOLEAN, big \in BOOLEAN, count \in 2..(MaxIfd + 1) :
            StartsWith(data, BigTiffFile(little, big, <<>>, count)) =>
                \A pre \in {<<>>, << <<259, 3, 1>> >>}, w \in IfdWidths, h \in IfdHeights,
                   first \in BOOLEAN :
                    LET fs == pre \o (IF first THEN <<w, h>> ELSE <<h, w>>)
                        head == BigTiffFile(little, big, <<>>, count) \o IfdBytes(little, big, fs)
                    IN  count >= Len(fs) /\ StartsWith(data, head) => res = OkSize(w[3], h[3])

\* the example file, followed by an entry of type code 0, has been measured
C19_Witness ==
    /\ entry = "tiff_size" /\ pc = "done"
    /\ data = BigTiffFile(TRUE, FALSE, << <<256, 3, 1419>>, <<257, 3, 1001>>, <<256, 0, 5>> >>, 0)
    /\ res = OkSize(1419, 1001)

\* a big-endian BigTIFF file cut inside the entry after the pair has been
\* measured
C19_WitnessCut ==
    /\ entry = "tiff_size" /\ pc = "done"
    /\ \E k \in 1..19 :
           data = BigTiffFile(FALSE, TRUE, << <<257, 4, 256>>, <<256, 3, 1419>> >>, 2)
                      \o SubSeq(IfdRecord(FALSE, TRUE, 259, 3, 1), 1, k)
    /\ res = OkSize(1419, 256)

\* the type codes that no file may carry, and those a classic file may not
BadKind(kind, big) ==
    kind = 0 \/ kind = 14 \/ kind = 15 \/ kind > 18 \/ (~big /\ kind \in 16..18)

\* the walk stands before an entry whose tag, type and count can be read
AtIfdEntry ==
    /\ entry = "tiff_size" /\ pc = "ifd" /\ loc.n > 0
    /\ CanRead(data, pos, IF loc.big THEN 12 ELSE 8)

\* C20: the walk stands before an entry, so the two dimensions are not both
\* known; if the entry's type code is unknown, or is 16..18 in a classic
\* file, the pass ends the call with InvalidData, whatever the tag is.
C20_BadKindInvalidData ==
    AtIfdEntry /\ BadKind(U16E(loc.little, data, pos + 2), loc.big) =>
        \A next \in PassOutcomes : next.pc = "done" /\ next.res = Err("InvalidData")

\* a classic file with a width entry followed by an entry of the BigTIFF
\* type 16 has failed at the second entry
C20_Witness ==
    /\ entry = "tiff_size" /\ pc = "done"
    /\ data = BigTiffFile(TRUE, FALSE, << <<256, 3, 1419>>, <<273, 16, 8>> >>, 0)
    /\ loc.width = 1419 /\ loc.n = 1
    /\ res = Err("InvalidData")

\* the entries of bad type codes met by the walk carry the width tag, the
\* height tag and other tags
C20_WitnessTags ==
    /\ AtIfdEntry /\ BadKind(U16E(loc.little, data, pos + 2), loc.big)
    /\ U16E(loc.little, data, pos) = 257 /\ loc.big

---------------------------------------------------------------------------
(* C21..C23, C30: the JPEG-XL header, read as the claims describe it.       *)

\* the 16-byte window over the start of the input, 0 where the input ends
Window == [i \in 1..16 |-> IF i <= Len(data) THEN data[i] ELSE 0]

\* a raw codestream of at least 16 bytes has been decoded
RawJxlDone ==
    /\ entry = "jxl_size" /\ pc = "done"
    /\ Len(data) >= 16 /\ Slice(data, 0, 2) = <<255, 10>>

HdrSmall == Field(Window, 1, 16) = 1
HdrHeightAt == IF HdrSmall THEN 17 ELSE 19
HdrHeightBits == IF HdrSmall THEN 5 ELSE SelBits(Field(Window, 2, 17))
HdrHeight ==
    IF HdrSmall THEN (Field(Window, 5, 17) + 1) * 8
    ELSE Field(Window, HdrHeightBits, 19) + 1
HdrRatioAt == HdrHeightAt + HdrHeightBits
HdrRatio == Field(Window, 3, HdrRatioAt)
HdrWidthAt == IF HdrSmall THEN 25 ELSE HdrRatioAt + 5
HdrWidthBits == IF HdrSmall THEN 5 ELSE SelBits(Field(Window, 2, HdrRatioAt + 3))
HdrWidth ==
    IF HdrSmall THEN (Field(Window, 5, 25) + 1) * 8
    ELSE Field(Window, HdrWidthBits, HdrWidthAt) + 1
HdrMetaAt == IF HdrRatio = 0 THEN HdrWidthAt + HdrWidthBits ELSE HdrRatioAt + 3
HdrAllDefault == Field(Window, 1, HdrMetaAt) = 1
HdrExtraFields == Field(Window, 1, HdrMetaAt + 1) = 1
HdrOrientation == Field(Window, 3, HdrMetaAt + 2)
HdrSwap == ~HdrAllDefault /\ HdrExtraFields /\ HdrOrientation >= 4

\* C21: for a raw codestream with ratio 0 whose orientation does not swap,
\* the height is (5-bit field at bit 17 + 1) << 3 and the width (5-bit field
\* at bit 25 + 1) << 3 when the small flag at bit 16 is set; otherwise the
\* selector at bit 17 chooses a 9-, 13-, 18- or 30-bit height field at bit
\* 19 and the selector behind the ratio a 9-, 13-, 18- or 30-bit width field,
\* each giving field + 1.  small = 1 with both fields 3 yields {32, 32}.
C21_JxlDims ==
    /\ RawJxlDone /\ HdrRatio = 0 /\ ~HdrSwap => res = OkSize(HdrWidth, HdrHeight)
    /\ entry = "jxl_size" /\ pc = "done" /\ Len(data) >= 4
           /\ SubSeq(data, 1, 4) = <<255, 10, 7, 70>>
           => res = OkSize(32, 32)

\* a 30-bit height and an 18-bit width have been decoded
C21_Witness ==
    /\ RawJxlDone /\ HdrRatio = 0 /\ ~HdrSwap /\ ~HdrSmall
    /\ HdrHeightBits = 30 /\ HdrWidthBits = 18
    /\ res = OkSize(2 ^ 18, 2 ^ 30 - 1)

\* the example of the small form has been decoded
C21_WitnessSmall ==
    /\ RawJxlDone /\ SubSeq(data, 1, 4) = <<255, 10, 7, 70>> /\ res = OkSize(32, 32)

\* floor(height * num / den) for the ratio r of 1..7
RatioNum(r) == CASE r = 1 -> 1 [] r = 2 -> 12 [] r = 3 -> 4 [] r = 4 -> 3 [] r = 5 -> 16
                 [] r = 6 -> 5 [] r = 7 -> 2
RatioDen(r) == CASE r = 1 -> 1 [] r = 2 -> 10 [] r = 3 -> 3 [] r = 4 -> 2 [] r = 5 -> 9
                 [] r = 6 -> 4 [] r = 7 -> 1

\* height * num / den, rounded down, without leaving the integers below 2^31
FloorRatio(height, r) ==
    (height \div RatioDen(r)) * RatioNum(r)
        + ((height % RatioDen(r)) * RatioNum(r)) \div RatioDen(r)

\* C22: for a raw codestream with a ratio r of 1..7 whose orientation does
\* not swap, the width is floor(height * num / den) for the aspect ratio
\* num:den of r.
C22_RatioWidth ==
    RawJxlDone /\ HdrRatio \in 1..7 /\ ~HdrSwap
        => res = OkSize(FloorRatio(HdrHeight, HdrRatio), HdrHeight)

\* what holds instead: the height is divided first, so the width is
\* floor(height / den) * num; no width field is read (the flags follow the
\* ratio)
C22_DividesFirst ==
    RawJxlDone /\ HdrRatio \in 1..7 /\ ~HdrSwap
        => res = OkSize((HdrHeight \div RatioDen(HdrRatio)) * RatioNum(HdrRatio), HdrHeight)

\* file_header with bit i set
WithBit(file_header, i) ==
    [k \in 1..16 |-> IF k = (i \div 8) + 1 /\ BitAt(file_header, i) = 0
                     THEN file_header[k] + 2 ^ (i % 8) ELSE file_header[k]]

\* the size the same header yields when its all-default flag is set
Unoriented == jxl_decode(WithBit(Window, HdrMetaAt), 16)

\* C23: the all-default flag is the bit behind the width field when the
\* ratio is 0 and behind the ratio field otherwise.  The result of a raw
\* codestream is the size the header yields with that flag set, with width
\* and height swapped exactly when the flag is 0, the extra-fields flag
\* behind it is 1 and the 3-bit orientation code behind that is 4 or more.
C23_Orientation ==
    RawJxlDone =>
        /\ Unoriented.kind = "size"
        /\ res = IF HdrSwap THEN OkSize(Unoriented.height, Unoriented.width) ELSE Unoriented

\* a header with width and height different and orientation code 7 has
\* been decoded with the two swapped
C23_Witness ==
    /\ RawJxlDone /\ HdrSwap /\ HdrOrientation = 7 /\ HdrRatio = 0
    /\ Unoriented.width # Unoriented.height
    /\ res = OkSize(Unoriented.height, Unoriented.width)

\* headers with extra fields and code 3, and with code 4 but no extra
\* fields read (all-default), have been decoded without a swap
C23_WitnessNoSwap ==
    /\ RawJxlDone /\ ~HdrAllDefault /\ HdrExtraFields /\ HdrOrientation = 3
    /\ HdrRatio = 5 /\ Unoriented.width # Unoriented.height
    /\ res = Unoriented

---------------------------------------------------------------------------
(* C24: read_bits as a function of its four arguments.                      *)

\* the accumulator of a read_bits run: its four low bytes as a number
Accumulator == data[4] + 256 * data[5] + 65536 * data[6] + 16777216 * data[7]

\* (accumulator >> bit_offset) mod 2^num_bits, for an accumulator below 2^31
FieldValue(num_bits, bit_offset) ==
    LET shifted == IF bit_offset >= 31 THEN 0 ELSE Accumulator \div (2 ^ bit_offset)
    IN  IF num_bits >= 31 THEN shifted ELSE shifted % (2 ^ num_bits)

\* C24: read_bits returns (accumulator >> bit_offset) mod 2^num_bits when
\* bit_offset + num_bits <= total_valid_bits, and CorruptedImage, not a
\* panic, when the field would end beyond total_valid_bits.
C24_ReadBits ==
    entry = "read_bits" /\ pc = "done" =>
        IF data[2] + data[1] <= data[3]
        THEN res = OkBits(FieldValue(data[1], data[2]))
        ELSE res = Err("CorruptedImage")

\* what holds instead, for fields of less than 64 bits: the field is
\* returned only when it ends before the last valid bit
C24_ReadBitsStrict ==
    entry = "read_bits" /\ pc = "done" /\ data[1] < 64 =>
        IF data[2] + data[1] < data[3]
        THEN res = OkBits(FieldValue(data[1], data[2]))
        ELSE res = Err("CorruptedImage")

---------------------------------------------------------------------------
(* C25: the header accumulated from jxlp boxes.                             *)

FirstBytes(seq, n) == SubSeq(seq, 1, Min(n, Len(seq)))

\* the header the fragments of plan give: payloads in order, up to 16 bytes,
\* up to the fragment marked final
RECURSIVE JxlpHeader(_, _)
JxlpHeader(plan, held) ==
    IF plan = <<>> \/ Len(held) = 16 THEN held
    ELSE LET now == FirstBytes(held \o Head(plan)[1], 16)
         IN  IF Head(plan)[3] THEN now ELSE JxlpHeader(Tail(plan), now)

\* a file of jxlp boxes has been read
JxlpDone == entry = "jxl_size" /\ pc = "done" /\ Len(data) >= 20 /\ Slice(data, 16, 20) = T_jxlp

\* C25: the accumulated header never exceeds 16 bytes, and once a file of
\* jxlp boxes has been read it is the first min(16, total) bytes of the
\* payloads in order, up to the final fragment, whatever the declared sizes
\* of the boxes are (4-byte size, 8-byte size, or 0 for the rest of the
\* stream).
C25_JxlpHeader ==
    /\ loc.header_size <= 16
    /\ JxlpDone =>
           \A plan \in JxlpAllPlans :
               data = JxlpFile(plan) =>
                   /\ loc.header_size = Len(JxlpHeader(plan, <<>>))
                   /\ FirstBytes(loc.file_header, loc.header_size) = JxlpHeader(plan, <<>>)

\* a box of declared size 0 comes behind fragments that were kept
ZeroSizeBehindData(plan) ==
    \E i \in 2..Len(plan) : plan[i][2] = 0 /\ ~(\E j \in 1..(i - 1) : plan[j][3])

\* what holds instead: the same, except for a box of declared size 0 that
\* follows other fragments
C25_JxlpHeaderSized ==
    /\ loc.header_size <= 16
    /\ JxlpDone =>
           \A plan \in JxlpAllPlans :
               data = JxlpFile(plan) /\ ~ZeroSizeBehindData(plan) =>
                   /\ loc.header_size = Len(JxlpHeader(plan, <<>>))
                   /\ FirstBytes(loc.file_header, loc.header_size) = JxlpHeader(plan, <<>>)

---------------------------------------------------------------------------
(* C26: the ILBM chunk walk.                                                *)

\* the declared length of the chunk at p: Huge for 0xFFFFFFFF
DeclaredLength(d, p) ==
    IF Slice(d, p + 4, p + 8) = <<255, 255, 255, 255>> THEN Huge ELSE U32BE(d, p + 4)

\* where the chunk at p ends, its padding byte included; Huge is beyond
\* every stream
DeclaredEnd(d, p) ==
    LET len == DeclaredLength(d, p)
    IN  IF len = Huge THEN Huge ELSE p + 8 + len + (len % 2)

\* the first BMHD or BODY chunk of the chunks that start at p, in file
\* order: <<id, offset>>, or <<>> when the chunks end before one is met
RECURSIVE FirstStop(_, _)
FirstStop(d, p) ==
    IF ~CanRead(d, p, 8) THEN <<>>
    ELSE IF Slice(d, p, p + 4) \in {T_BMHD, T_BODY} THEN <<Slice(d, p, p + 4), p>>
    ELSE FirstStop(d, DeclaredEnd(d, p))

\* C26: the walk starts at offset 12 and passes every chunk that is neither
\* BMHD nor BODY by going to its declared end (length plus a padding byte
\* when odd); the call returns the two big-endian 16-bit numbers at the
\* start of the first BMHD chunk when no BODY chunk precedes it, and fails
\* with CorruptedImage when a BODY chunk is met first.
C26_ChunkWalk ==
    /\ entry = "ilbm_size" /\ pc = "ilbm" /\ CanRead(data, pos, 8)
           /\ Slice(data, pos, pos + 4) \notin {T_BMHD, T_BODY}
           => \A next \in PassOutcomes : next.pc = "ilbm" /\ next.pos = DeclaredEnd(data, pos)
    /\ entry = "ilbm_size" /\ pc = "done" /\ FirstStop(data, 12) # <<>> =>
           LET stop == FirstStop(data, 12)
           IN  /\ stop[1] = T_BODY => res = Err("CorruptedImage")
               /\ stop[1] = T_BMHD /\ CanRead(data, stop[2] + 8, 4)
                      => res = OkSize(U16BE(data, stop[2] + 8), U16BE(data, stop[2] + 10))

\* what holds instead: the same for every chunk whose declared length is not
\* 0xFFFFFFFF
C26_ChunkWalkSized ==
    /\ entry = "ilbm_size" /\ pc = "ilbm" /\ CanRead(data, pos, 8)
           /\ Slice(data, pos, pos + 4) \notin {T_BMHD, T_BODY}
           /\ DeclaredLength(data, pos) # Huge
           => \A next \in PassOutcomes : next.pc = "ilbm" /\ next.pos = DeclaredEnd(data, pos)
    /\ entry = "ilbm_size" /\ pc = "done" /\ FirstStop(data, 12) # <<>> =>
           LET stop == FirstStop(data, 12)
           IN  /\ stop[1] = T_BODY => res = Err("CorruptedImage")
               /\ stop[1] = T_BMHD /\ CanRead(data, stop[2] + 8, 4)
                      => res = OkSize(U16BE(data, stop[2] + 8), U16BE(data, stop[2] + 10))

---------------------------------------------------------------------------
(* C27: the PNM predicate.                                                  *)

\* 'P' followed by one of '1'..'6'
IsP1toP6(h) == h[1] = 80 /\ h[2] \in 49..54

\* C27: the PNM predicate accepts a 12-byte header exactly when it starts
\* with 'P' and one of '1'..'6', so the dispatcher never answers Pnm for
\* any other header.
C27_PnmExactly ==
    entry = "image_type" /\ pc = "done" /\ Len(data) >= 12 =>
        /\ pnm_matches(Header) <=> IsP1toP6(Header)
        /\ res = OkType("Pnm", "") => IsP1toP6(Header)

\* what holds instead: the predicate accepts every header that starts with
\* 'P', and the dispatcher answers Pnm for those that no earlier format
\* claims
C27_PnmFirstByte ==
    entry = "image_type" /\ pc = "done" /\ Len(data) >= 12 =>
        /\ pnm_matches(Header) <=> Header[1] = 80
        /\ res = OkType("Pnm", "") => Header[1] = 80

---------------------------------------------------------------------------
(* C28: the predicates on windows of any length.                            *)

\* a predicate has been called on its own
MatchDone == entry \in MatchEntries /\ pc = "done"

\* C28: a predicate called on a window of any length, the empty one
\* included, answers true or false, and answers false on the empty window.
C28_MatchesTotal ==
    MatchDone => res.kind = "bool" /\ (data = <<>> => res = OkBool(FALSE))

\* the windows on which the three predicates index beyond the length
TgaShort == entry = "tga::matches" /\ Len(data) < 3
PnmShort == entry = "pnm::matches" /\ (data = <<>> \/ data = <<80>>)
TiffShort ==
    /\ entry = "tiff::matches"
    /\ \/ Len(data) = 2 /\ data = <<73, 73>>
       \/ Len(data) = 3 /\ SubSeq(data, 1, 2) = <<73, 73>> /\ data[3] \in {42, 43}
       \/ data = <<77, 77, 0>>

\* what holds instead: the TGA, PNM and TIFF predicates panic on exactly
\* those windows; every other call answers true or false, and false on the
\* empty window
C28_MatchesTotalButThree ==
    MatchDone =>
        IF TgaShort \/ PnmShort \/ TiffShort THEN res.kind = "panic"
        ELSE res.kind = "bool" /\ (data = <<>> => res = OkBool(FALSE))

---------------------------------------------------------------------------
(* C29: the three formats that share the PKM magic.                         *)

EacSubTags == {"EacRgSigned", "EacRSigned", "EacR", "EacRg"}

\* the dispatcher has answered for a header 'PKM ' with version 10 or 20
PkmDone ==
    /\ entry = "image_type" /\ pc = "done" /\ Len(data) >= 12
    /\ Slice(data, 0, 4) = <<80, 75, 77, 32>>
    /\ Slice(data, 4, 6) \in {<<49, 48>>, <<50, 48>>}

\* the big-endian data type at offset 6
PkmDataType == 256 * data[7] + data[8]

\* C29: for a header 'PKM ' with version 10 or 20 the answer is Atc for the
\* data types 0x8C92, 0x8C93 and 0x87EE, Eac for 0x1608..0x160B and Etc2
\* for every other; Eac carries one of the four EAC sub-tags, Etc2 none of
\* them, and Atc never Unknown.
C29_PkmFamily ==
    PkmDone =>
        /\ res.kind = "type"
        /\ res.tag = IF PkmDataType \in {35986, 35987, 34798} THEN "Atc"
                     ELSE IF PkmDataType \in 5640..5643 THEN "Eac"
                     ELSE "Etc2"
        /\ res.tag = "Eac" => res.sub \in EacSubTags
        /\ res.tag = "Etc2" => res.sub \notin EacSubTags
        /\ res.tag = "Atc" => res.sub # "Unknown"

\* the data type 0x160B has been answered as Eac, and 0x160C as Etc2
C29_Witness ==
    /\ PkmDone /\ PkmDataType = 5643 /\ res = OkType("Eac", "EacRg")

C29_WitnessEtc2 ==
    /\ PkmDone /\ PkmDataType = 5644 /\ res = OkType("Etc2", "Unknown")

C29_WitnessAtc ==
    /\ PkmDone /\ PkmDataType = 34798 /\ res = OkType("Atc", "RgbaInterpolated")

---------------------------------------------------------------------------
(* C30: the bytes behind the header bytes that were read.                   *)

\* a raw codestream of 2..16 bytes has been decoded: all of it is header
RawJxlCut ==
    /\ entry = "jxl_size" /\ pc = "done"
    /\ Len(data) \in 2..16 /\ Slice(data, 0, 2) = <<255, 10>>

\* the 16-byte buffer that holds the input and byte p behind it
PaddedWith(p) == [i \in 1..16 |-> IF i <= Len(data) THEN data[i] ELSE p]

Paddings == {0, 1, 85, 128, 170, 255}

\* C30: a codestream of n bytes (2 <= n <= 16) decodes to the same outcome,
\* size or error, whatever the 16-byte buffer holds behind its first n
\* bytes.
C30_PaddingIgnored ==
    RawJxlCut => \A p \in Paddings : jxl_decode(PaddedWith(p), Len(data)) = res

\* a 4-byte header whose width selector has its second bit behind the
\* header (bit 32) has been refused, although the selector read from the
\* buffer differs with the padding
C30_Witness ==
    /\ RawJxlCut /\ Len(data) = 4 /\ ~HdrSmall /\ HdrHeightBits = 9 /\ HdrRatio = 0
    /\ Field(PaddedWith(255), 2, 31) # Field(PaddedWith(0), 2, 31)
    /\ res = Err("CorruptedImage")

\* a header of 5 bytes has been decoded to a size
C30_WitnessSize ==
    /\ RawJxlCut /\ Len(data) = 5 /\ res.kind = "size" /\ res.width # res.height
===========================================================================
